---- MODULE Spec2Model ----
(***************************************************************************)
(* State-machine model of the in-memory stores of the Ratio1 edge SDK:     *)
(*   - pkg/cstore/mock/mock_cstore.go : value store and hash store with    *)
(*     TTL, ETag conditional writes and cursor pagination;                 *)
(*   - pkg/r1fs/mock/mock_r1fs.go     : file store with CID side tables.   *)
(*   - internal/httpx/client.go       : Client.Do, its retry loop.         *)
(* Strings that are ordered or prefix-matched (keys, cursors, paths) are   *)
(* sequences of one-character strings compared bytewise, as Go does.       *)
(* Optional values (nil pointers, nil results) are sequences of length 0   *)
(* or 1.  Times are integer seconds; 0 is the zero time.Time.              *)
(***************************************************************************)
EXTENDS Integers, Sequences, FiniteSets, TLC

\* ------------------------------------------------------------------ bounds
MaxTime == 3
MaxTTL == 1
MaxLimit == 2
MaxSeed == 2
MaxRetriesAsked == 2

\* ------------------------------------------------------------ input domains
Values == {"v1", "v2"}
ETags == {"e1", "e2"}
NoKey == << >>
Keys == {<<"a">>, <<"b">>}
ListKeys == {<<"a">>, <<"a", "1">>, <<"b">>}
Prefixes == {<< >>, <<"a">>, <<"b">>}
Cursors == {<< >>, <<"a">>, <<"a", "0">>, <<"a", "1">>, <<"b">>}
HashKeys == {<<"h">>}
Procs == {"g1", "g2"}
FsPaths == {<<"a">>, <<"/", "a">>}
FsDirs == {<< >>, <<"/", "a">>}
CIDs == {<<"c">>}
FileNames == {<<"n">>}
FsData == {"d1"}
Documents == {"y1"}
\* The nil interface value AddYAML rejects.
NilDoc == "<nil>"
Fields == {<<"a">>, <<"b">>}
Limits == (0 - 1) .. MaxLimit
TTLChoices == {<< >>, <<MaxTTL>>}
TagChoices == {""} \cup ETags
PutOptionsSet == [TTLSeconds : TTLChoices, IfETagMatch : TagChoices, IfAbsent : BOOLEAN]
NilOptions == [TTLSeconds |-> << >>, IfETagMatch |-> "", IfAbsent |-> FALSE]
\* What ctx.Err() answers when a call begins: nil, or context.Canceled.
Contexts == {"live", "canceled"}
Background == "live"

\* ------------------------------------------------------------------- state
VARIABLES
    now,      \* the injected clock (Mock.now), whole seconds
    items,    \* Mock.items : key -> entry
    hashes,   \* Mock.hashes : hash key -> field -> entry
    last,     \* the most recent call: its arguments and what it returned
    trav,     \* a caller following nextCursor over an unmodified store
    files,    \* r1fs Mock.files : normalized path -> fileEntry
    fileNames,\* r1fs Mock.fileNames : cid -> display filename
    yamlDocs, \* r1fs Mock.yamlDocs : cid -> serialized document
    pc,       \* per goroutine: where it stands inside a file-store call
    loc,      \* per goroutine: the locals it carries between lock sections
    fsLast    \* the most recently returned file-store call and its result

kvVars == <<now, items, hashes, last, trav>>
fsVars == <<files, fileNames, yamlDocs, pc, loc, fsLast>>
vars == <<now, items, hashes, last, trav, files, fileNames, yamlDocs, pc, loc, fsLast>>

\* ------------------------------------------------------------ Go strings
\* Byte value of the characters used in keys.
Ord(c) == CASE c = "/" -> 47 [] c = "0" -> 48 [] c = "1" -> 49 [] c = "2" -> 50
            [] c = "a" -> 97 [] c = "b" -> 98 [] c = "c" -> 99 [] OTHER -> 0

Min(a, b) == IF a <= b THEN a ELSE b

\* Go's s < t on strings: bytewise lexicographic order.
StrLess(s, t) ==
    \/ \E i \in 1 .. Min(Len(s), Len(t)) :
          /\ \A j \in 1 .. (i - 1) : s[j] = t[j]
          /\ Ord(s[i]) < Ord(t[i])
    \/ /\ Len(s) < Len(t)
       /\ \A j \in 1 .. Len(s) : s[j] = t[j]

StrLeq(s, t) == s = t \/ StrLess(s, t)

\* strings.HasPrefix
HasPrefix(s, p) == Len(p) <= Len(s) /\ \A j \in 1 .. Len(p) : s[j] = p[j]

\* sort.Strings applied to the elements of a set.
RECURSIVE SortStrings(_)
SortStrings(S) ==
    IF S = {} THEN << >>
    ELSE LET m == CHOOSE x \in S : \A y \in S : StrLeq(x, y)
         IN <<m>> \o SortStrings(S \ {m})

\* sort.SearchStrings: smallest 0-based index i with keys[i] >= x, or len.
SearchStrings(keys, x) ==
    LET hits == {i \in 0 .. (Len(keys) - 1) : ~StrLess(keys[i + 1], x)}
    IN IF hits = {} THEN Len(keys)
       ELSE CHOOSE i \in hits : \A j \in hits : i <= j

\* Go map helpers.
MapDelete(m, k) == [x \in (DOMAIN m) \ {k} |-> m[x]]
MapPut(m, k, e) == [x \in (DOMAIN m) \cup {k} |-> IF x = k THEN e ELSE m[x]]
EmptyMap == [x \in {} |-> 0]

\* ------------------------------------------------------------------ entry
ZeroTime == 0

\* entry.expired
expiredBefore(e, t) == e.expiresAt # ZeroTime /\ t < e.expiresAt
expired(e, t) == e.expiresAt # ZeroTime /\ t > e.expiresAt

\* The *time.Time handed back to the caller: nil for the zero time.
ExpiresPtr(e) == IF e.expiresAt # ZeroTime THEN <<e.expiresAt>> ELSE << >>

ItemOf(key, e) ==
    [Key |-> key, Value |-> e.data, ETag |-> e.etag, ExpiresAt |-> ExpiresPtr(e)]

\* The expiry a write computes from its options.
NewExpiresAtAnyTTL(opts, t) ==
    IF opts.TTLSeconds # << >>
    THEN t + opts.TTLSeconds[1]
    ELSE ZeroTime

NewExpiresAt(opts, t) ==
    IF opts.TTLSeconds # << >> /\ opts.TTLSeconds[1] > 0
    THEN t + opts.TTLSeconds[1]
    ELSE ZeroTime

\* ctx.Err()
ctxErr(ctx) == IF ctx = "canceled" THEN "context canceled" ELSE "nil"

NoCall == [op |-> "none", ctx |-> Background, key |-> NoKey, field |-> NoKey, opts |-> NilOptions,
           found |-> "none", err |-> "nil", item |-> << >>, page |-> << >>,
           nilResult |-> FALSE, nextCursor |-> << >>,
           prefix |-> << >>, cursor |-> << >>, limit |-> 0]

IdleTrav == [active |-> FALSE, prefix |-> << >>, limit |-> 0, cursor |-> << >>,
             acc |-> << >>, done |-> FALSE]

\* internal/httpx: the retry policy of a Client and one Request in Do.
\* A policy is what WithRetryPolicy hands over; RetryIf is "nil" or "set",
\* and a set RetryIf is the caller's function, free to answer either way.
StatusRequestTimeout == 408
StatusTooManyRequests == 429
DefaultMaxRetries == 3
DefaultRetryPolicy == [MaxRetries |-> DefaultMaxRetries, RetryIf |-> "nil"]
RetryPolicies ==
    [MaxRetries : (0 - 1) .. MaxRetriesAsked, RetryIf : {"nil", "set"}] \cup {DefaultRetryPolicy}
\* The statuses a server answers with; 0 stands for a nil *http.Response.
Statuses == {200, 400, 404, StatusRequestTimeout, StatusTooManyRequests, 500, 599}
\* The caller's context: live, cancelled, or past its deadline.
DoContexts == {"live", "canceled", "deadline"}
Canceled == "context canceled"
DeadlineExceeded == "context deadline exceeded"
\* What httpClient.Do can fail with; the last two satisfy errors.Is against
\* context.Canceled and context.DeadlineExceeded.
TransportErrors == {"transport error", Canceled, DeadlineExceeded}

\* One call of Client.Do: the client's policy, the request, the caller's
\* context, the loop's attempt counter, the latest resp and err (the values
\* returned once returned is TRUE).  sent counts the calls of httpClient.Do
\* and ctxErrSeen records that one of them reported a context error.
NoRequest == [retryPolicy |-> DefaultRetryPolicy, DisableRetry |-> FALSE, Method |-> "",
              ctx |-> "live", attempt |-> 0, resp |-> 0, err |-> "nil",
              returned |-> FALSE, sent |-> 0, ctxErrSeen |-> FALSE]

\* What a goroutine holds between two locked sections of one call: its
\* arguments and locals; seen records the file table as the call's first
\* section left it, to tell whether another call has changed it since.
NoLocals == [keys |-> << >>, start |-> 0, end |-> 0, cid |-> << >>, payload |-> "",
             value |-> "", dir |-> << >>, cursor |-> << >>, limit |-> 0,
             seen |-> EmptyMap, etag |-> "", found |-> "none", result |-> "",
             prefix |-> << >>, acc |-> << >>, steady |-> {}, mu |-> "", op |-> "none",
             nextCursor |-> << >>, call |-> NoRequest]

NoFsCall == [op |-> "none", proc |-> "", ctx |-> Background, path |-> << >>,
             err |-> "nil", data |-> "", cid |-> << >>, filename |-> << >>,
             meta |-> << >>, page |-> << >>, nextCursor |-> << >>,
             secret |-> "", value |-> "", dir |-> << >>, cursor |-> << >>, limit |-> 0,
             replaced |-> FALSE, at |-> ZeroTime, backend |-> "mock"]

Init ==
    /\ now = 1
    /\ items = EmptyMap
    /\ hashes = EmptyMap
    /\ last = NoCall
    /\ trav = IdleTrav
    /\ files = EmptyMap
    /\ fileNames = EmptyMap
    /\ yamlDocs = EmptyMap
    /\ pc = [p \in Procs |-> "idle"]
    /\ loc = [p \in Procs |-> NoLocals]
    /\ fsLast = NoFsCall

\* --------------------------------------------------------------- the clock
\* The injected clock moves forward between calls.
clockAdvance ==
    /\ now < MaxTime
    /\ now' = now + 1
    /\ UNCHANGED <<items, hashes, last>>
    /\ trav' = IF \E k \in DOMAIN items : expired(items[k], now + 1) /\ ~expired(items[k], now)
               THEN IdleTrav ELSE trav

Tick == clockAdvance /\ UNCHANGED fsVars

\* ------------------------------------------------------------- value store
\* What a handler sees under the key it was called with (its locals ok /
\* exists and ent.expired(now)).
lookup(m, key) ==
    IF key \notin DOMAIN m THEN "absent"
    ELSE IF expired(m[key], now) THEN "stale"
    ELSE "live"

\* getItem as seen by the store: the key and context checks and the locked
\* section.
getItemLocked(ctx, key) ==
    LET call == [NoCall EXCEPT !.op = "get", !.ctx = ctx, !.key = key]
    IN /\ UNCHANGED <<now, hashes>>
       /\ IF key = NoKey THEN
             /\ last' = [call EXCEPT !.err = "key is required"]
             /\ UNCHANGED items
          ELSE IF ctxErr(ctx) # "nil" THEN
             /\ last' = [call EXCEPT !.err = ctxErr(ctx)]
             /\ UNCHANGED items
          ELSE IF key \notin DOMAIN items THEN
             /\ last' = [call EXCEPT !.found = "absent"]
             /\ UNCHANGED items
          ELSE IF expired(items[key], now) THEN
             /\ items' = MapDelete(items, key)
             /\ last' = [call EXCEPT !.found = "stale"]
          ELSE
             /\ last' = [call EXCEPT !.found = "live",
                                     !.item = <<ItemOf(key, items[key])>>]
             /\ UNCHANGED items
    /\ trav' = IF items' = items THEN trav ELSE IdleTrav

getItem(ctx, key) == getItemLocked(ctx, key) /\ UNCHANGED fsVars

\* What putItem finds under the key once a stale entry has been dropped.
putExistsAnyEntry(key) == key \in DOMAIN items
putExists(key) == key \in DOMAIN items /\ ~expired(items[key], now)

putPreconditionTagOrMissing(key, opts) ==
    /\ ~(opts.IfAbsent /\ putExists(key))
    /\ (opts.IfETagMatch # "" =>
           (~putExists(key) \/ items[key].etag = opts.IfETagMatch))

putPreconditionExistsOnly(key, opts) ==
    /\ ~(opts.IfAbsent /\ putExists(key))
    /\ (opts.IfETagMatch # "" => putExists(key))

putPrecondition(key, opts) ==
    /\ ~(opts.IfAbsent /\ putExists(key))
    /\ (opts.IfETagMatch # "" =>
           (putExists(key) /\ items[key].etag = opts.IfETagMatch))

\* The map after putItem's sweep of a stale entry under the key.
putSweepAlways(key) == MapDelete(items, key)
putSweep(key) ==
    IF key \in DOMAIN items /\ expired(items[key], now)
    THEN MapDelete(items, key) ELSE items

\* putItem as seen by the store; etag is the value newETag() draws for this
\* write.
putItemLocked(ctx, key, value, opts, etag) ==
    /\ UNCHANGED <<now, hashes>>
    /\ IF key = NoKey THEN
          /\ last' = [NoCall EXCEPT !.op = "put", !.ctx = ctx, !.key = key, !.opts = opts,
                                    !.err = "key is required"]
          /\ UNCHANGED items
       ELSE IF ctxErr(ctx) # "nil" THEN
          /\ last' = [NoCall EXCEPT !.op = "put", !.ctx = ctx, !.key = key, !.opts = opts,
                                    !.err = ctxErr(ctx)]
          /\ UNCHANGED items
       ELSE
          LET swept == putSweep(key)
              newEntry == [data |-> value, etag |-> etag,
                           expiresAt |-> NewExpiresAt(opts, now)]
          IN IF ~putPrecondition(key, opts) THEN
                /\ items' = swept
                /\ last' = [NoCall EXCEPT !.op = "put", !.ctx = ctx, !.key = key,
                                          !.opts = opts,
                                          !.found = lookup(items, key),
                                          !.err = "ErrPreconditionFailed"]
             ELSE
                /\ items' = MapPut(swept, key, newEntry)
                /\ last' = [NoCall EXCEPT !.op = "put", !.ctx = ctx, !.key = key,
                                          !.opts = opts,
                                          !.found = lookup(items, key),
                                          !.item = <<ItemOf(key, newEntry)>>]
    /\ trav' = IF items' = items THEN trav ELSE IdleTrav

putItem(ctx, key, value, opts, etag) ==
    putItemLocked(ctx, key, value, opts, etag) /\ UNCHANGED fsVars

\* Delete receives the context and never consults it.
DeleteLocked(ctx, key) ==
    LET call == [NoCall EXCEPT !.op = "delete", !.ctx = ctx, !.key = key]
    IN /\ UNCHANGED <<now, hashes>>
       /\ IF key = NoKey THEN
             /\ last' = [call EXCEPT !.err = "key is required"]
             /\ UNCHANGED items
          ELSE IF key \notin DOMAIN items THEN
             /\ last' = [call EXCEPT !.found = "absent", !.err = "ErrNotFound"]
             /\ UNCHANGED items
          ELSE
             /\ items' = MapDelete(items, key)
             /\ last' = [call EXCEPT !.found = lookup(items, key)]
    /\ trav' = IF items' = items THEN trav ELSE IdleTrav

Delete(ctx, key) == DeleteLocked(ctx, key) /\ UNCHANGED fsVars

\* Mock.Seed applies the entries in order, each straight into the store; the
\* first entry without a key ends the load with an error.  etags[i] is the
\* value newETag() draws for entry i.
RECURSIVE seedItems(_, _, _, _, _)
seedItems(m, entries, etags, i, t) ==
    IF i > Len(entries) THEN [items |-> m, err |-> "nil"]
    ELSE IF entries[i].Key = NoKey THEN [items |-> m, err |-> "seed entry missing key"]
    ELSE seedItems(MapPut(m, entries[i].Key,
                          [data |-> IF entries[i].Value = "" THEN "null"
                                    ELSE entries[i].Value,
                           etag |-> etags[i],
                           expiresAt |-> NewExpiresAt(entries[i], t)]),
                   entries, etags, i + 1, t)

Seed(entries, etags) ==
    /\ UNCHANGED <<now, hashes, fsVars>>
    /\ \E r \in {seedItems(items, entries, etags, 1, now)} :
          /\ items' = r.items
          /\ last' = [NoCall EXCEPT !.op = "seed", !.err = r.err]
    /\ trav' = IF items' = items THEN trav ELSE IdleTrav

\* The keys a list call collects: the live keys under the prefix, sorted.
listKeys(prefix) ==
    SortStrings({k \in DOMAIN items :
                    /\ ~expired(items[k], now)
                    /\ (prefix = << >> \/ HasPrefix(k, prefix))})

\* The loop after sort.SearchStrings: step over every key <= cursor.
RECURSIVE skipLess(_, _, _)
skipLess(keys, idx, cursor) ==
    IF idx < Len(keys) /\ StrLess(keys[idx + 1], cursor)
    THEN skipLess(keys, idx + 1, cursor)
    ELSE idx

RECURSIVE skipLeq(_, _, _)
skipLeq(keys, idx, cursor) ==
    IF idx < Len(keys) /\ StrLeq(keys[idx + 1], cursor)
    THEN skipLeq(keys, idx + 1, cursor)
    ELSE idx

\* 0-based index of the first key of the page.
listStart(keys, cursor) ==
    LET idx == IF cursor # << >>
               THEN skipLeq(keys, SearchStrings(keys, cursor), cursor)
               ELSE 0
    IN IF idx > Len(keys) THEN Len(keys) ELSE idx

\* 0-based index one past the last key of the page.
listEndCount(keys, start, limit) ==
    IF limit > 0 /\ limit < Len(keys) THEN limit ELSE Len(keys)

listEnd(keys, start, limit) ==
    IF limit > 0 /\ start + limit < Len(keys) THEN start + limit ELSE Len(keys)

listNextCursorLastKey(keys, end) ==
    IF end > 0 THEN keys[end] ELSE << >>

listNextCursorNextKey(keys, end) ==
    IF end < Len(keys) /\ end > 0 THEN keys[end + 1] ELSE << >>

listNextCursor(keys, end) ==
    IF end < Len(keys) /\ end > 0 THEN keys[end] ELSE << >>

\* The store after the scan of a list call: every expired entry is deleted,
\* whatever its key.
listSweepTTL == [k \in {x \in DOMAIN items : items[x].expiresAt = ZeroTime} |-> items[k]]
listSweepNone == items
listSweep == [k \in {x \in DOMAIN items : ~expired(items[x], now)} |-> items[k]]

\* listItems without the caller's bookkeeping: sweep, select, page.
listItemsLocked(ctx, prefix, cursor, limit) ==
    IF ctxErr(ctx) # "nil" THEN
       /\ UNCHANGED <<now, items, hashes>>
       /\ last' = [NoCall EXCEPT !.op = "list", !.ctx = ctx, !.prefix = prefix,
                                 !.cursor = cursor, !.limit = limit, !.err = ctxErr(ctx)]
    ELSE
    \E keys \in {listKeys(prefix)} :
    \E start \in {listStart(keys, cursor)} :
    \E end \in {listEnd(keys, start, limit)} :
       /\ UNCHANGED <<now, hashes>>
       /\ items' = listSweep
       /\ last' = [NoCall EXCEPT !.op = "list", !.ctx = ctx, !.prefix = prefix,
                                 !.cursor = cursor, !.limit = limit,
                                 !.found = IF \E k \in DOMAIN items : expired(items[k], now)
                                           THEN "stale" ELSE "none",
                                 !.page = [i \in 1 .. (end - start) |->
                                              ItemOf(keys[start + i], items[keys[start + i]])],
                                 !.nextCursor = listNextCursor(keys, end)]

listItems(ctx, prefix, cursor, limit) ==
    listItemsLocked(ctx, prefix, cursor, limit) /\ UNCHANGED fsVars

PageKeys(page) == [i \in 1 .. Len(page) |-> page[i].Key]

\* A single list call with arbitrary arguments.
List(ctx, prefix, cursor, limit) ==
    /\ listItems(ctx, prefix, cursor, limit)
    /\ trav' = IdleTrav

\* A caller starts a traversal with the empty cursor ...
FirstPage(prefix, limit) ==
    /\ listItems(Background, prefix, << >>, limit)
    /\ trav' = [active |-> TRUE, prefix |-> prefix, limit |-> limit,
                cursor |-> last'.nextCursor, acc |-> PageKeys(last'.page),
                done |-> last'.nextCursor = << >>]

\* ... and follows nextCursor until it comes back empty.
NextPage ==
    /\ trav.active /\ ~trav.done
    /\ listItems(Background, trav.prefix, trav.cursor, trav.limit)
    /\ trav' = [trav EXCEPT !.cursor = last'.nextCursor,
                            !.acc = trav.acc \o PageKeys(last'.page),
                            !.done = last'.nextCursor = << >>]

\* -------------------------------------------------------------- hash store
HashItemOf(hashKey, field, e) ==
    [HashKey |-> hashKey, Field |-> field, Value |-> e.data, ETag |-> e.etag,
     ExpiresAt |-> ExpiresPtr(e)]

getHashItemLocked(ctx, hashKey, field) ==
    LET call == [NoCall EXCEPT !.op = "hget", !.ctx = ctx, !.key = hashKey, !.field = field]
    IN /\ UNCHANGED <<now, items, trav>>
       /\ IF hashKey = NoKey THEN
             /\ last' = [call EXCEPT !.err = "hash key is required"]
             /\ UNCHANGED hashes
          ELSE IF field = NoKey THEN
             /\ last' = [call EXCEPT !.err = "hash field is required"]
             /\ UNCHANGED hashes
          ELSE IF ctxErr(ctx) # "nil" THEN
             /\ last' = [call EXCEPT !.err = ctxErr(ctx)]
             /\ UNCHANGED hashes
          ELSE IF hashKey \notin DOMAIN hashes THEN
             /\ last' = [call EXCEPT !.found = "absent"]
             /\ UNCHANGED hashes
          ELSE IF field \notin DOMAIN hashes[hashKey] THEN
             /\ last' = [call EXCEPT !.found = "absent"]
             /\ UNCHANGED hashes
          ELSE IF expired(hashes[hashKey][field], now) THEN
             /\ LET bucket == MapDelete(hashes[hashKey], field)
                IN hashes' = IF DOMAIN bucket = {}
                             THEN MapDelete(hashes, hashKey)
                             ELSE MapPut(hashes, hashKey, bucket)
             /\ last' = [call EXCEPT !.found = "stale"]
          ELSE
             /\ last' = [call EXCEPT
                           !.found = "live",
                           !.item = <<HashItemOf(hashKey, field, hashes[hashKey][field])>>]
             /\ UNCHANGED hashes

getHashItem(ctx, hashKey, field) ==
    getHashItemLocked(ctx, hashKey, field) /\ UNCHANGED fsVars

\* The bucket putHashItem works on: the stored one, or a new empty one that
\* it installs in the store at once.
putHashBucket(hashKey) ==
    IF hashKey \in DOMAIN hashes THEN hashes[hashKey] ELSE EmptyMap

putHashExists(bucket, field) == field \in DOMAIN bucket /\ ~expired(bucket[field], now)

putHashPreconditionAnyField(bucket, field, opts) ==
    /\ ~(opts.IfAbsent /\ \E f \in DOMAIN bucket : ~expired(bucket[f], now))
    /\ (opts.IfETagMatch # "" =>
           (putHashExists(bucket, field) /\ bucket[field].etag = opts.IfETagMatch))

putHashPrecondition(bucket, field, opts) ==
    /\ ~(opts.IfAbsent /\ putHashExists(bucket, field))
    /\ (opts.IfETagMatch # "" =>
           (putHashExists(bucket, field) /\ bucket[field].etag = opts.IfETagMatch))

\* etag is the value newETag() draws for this write.
putHashItemLocked(ctx, hashKey, field, value, opts, etag) ==
    LET call == [NoCall EXCEPT !.op = "hset", !.ctx = ctx, !.key = hashKey, !.field = field,
                               !.opts = opts]
    IN /\ UNCHANGED <<now, items, trav>>
       /\ IF hashKey = NoKey THEN
             /\ last' = [call EXCEPT !.err = "hash key is required"]
             /\ UNCHANGED hashes
          ELSE IF field = NoKey THEN
             /\ last' = [call EXCEPT !.err = "hash field is required"]
             /\ UNCHANGED hashes
          ELSE IF ctxErr(ctx) # "nil" THEN
             /\ last' = [call EXCEPT !.err = ctxErr(ctx)]
             /\ UNCHANGED hashes
          ELSE
             LET bucket == putHashBucket(hashKey)
                 swept == IF field \in DOMAIN bucket /\ expired(bucket[field], now)
                          THEN MapDelete(bucket, field) ELSE bucket
                 newEntry == [data |-> value, etag |-> etag,
                              expiresAt |-> NewExpiresAt(opts, now)]
             IN IF ~putHashPrecondition(bucket, field, opts) THEN
                   /\ hashes' = MapPut(hashes, hashKey, swept)
                   /\ last' = [call EXCEPT !.found = lookup(bucket, field),
                                            !.err = "ErrPreconditionFailed"]
                ELSE
                   /\ hashes' = MapPut(hashes, hashKey, MapPut(swept, field, newEntry))
                   /\ last' = [call EXCEPT
                                 !.found = lookup(bucket, field),
                                 !.item = <<HashItemOf(hashKey, field, newEntry)>>]

putHashItem(ctx, hashKey, field, value, opts, etag) ==
    putHashItemLocked(ctx, hashKey, field, value, opts, etag) /\ UNCHANGED fsVars

\* The bucket after listHashItems has dropped its expired fields.
listHashAll(hashKey) == hashes[hashKey]
listHashLive(hashKey) ==
    [f \in {x \in DOMAIN hashes[hashKey] : ~expired(hashes[hashKey][x], now)}
       |-> hashes[hashKey][f]]

\* HGetAll answers nil both for no bucket and for a bucket without a live
\* field, and a non-empty list otherwise.
listHashItemsLocked(ctx, hashKey) ==
    LET call == [NoCall EXCEPT !.op = "hgetall", !.ctx = ctx, !.key = hashKey]
    IN /\ UNCHANGED <<now, items, trav>>
       /\ IF hashKey = NoKey THEN
             /\ last' = [call EXCEPT !.err = "hash key is required"]
             /\ UNCHANGED hashes
          ELSE IF ctxErr(ctx) # "nil" THEN
             /\ last' = [call EXCEPT !.err = ctxErr(ctx)]
             /\ UNCHANGED hashes
          ELSE IF hashKey \notin DOMAIN hashes THEN
             /\ last' = [call EXCEPT !.found = "absent", !.nilResult = TRUE]
             /\ UNCHANGED hashes
          ELSE
             \E bucket \in {listHashLive(hashKey)} :
             \E fields \in {SortStrings(DOMAIN bucket)} :
                /\ hashes' = IF DOMAIN bucket = {}
                             THEN MapDelete(hashes, hashKey)
                             ELSE MapPut(hashes, hashKey, bucket)
                /\ last' = IF fields = << >>
                           THEN [call EXCEPT
                                   !.found = IF DOMAIN hashes[hashKey] = {}
                                             THEN "empty" ELSE "stale",
                                   !.nilResult = TRUE]
                           ELSE [call EXCEPT
                                   !.found = "live",
                                   !.page = [i \in 1 .. Len(fields) |->
                                               HashItemOf(hashKey, fields[i],
                                                          hashes[hashKey][fields[i]])]]

listHashItems(ctx, hashKey) == listHashItemsLocked(ctx, hashKey) /\ UNCHANGED fsVars

\* ------------------------------------------------------------- the facade
\* pkg/cstore Client: the write paths check their arguments and options
\* before they hand the call to the backend.  A nil *PutOptions and one with
\* no field set are both NilOptions.
validatePutOptionsTTLOnly(opts) ==
    IF opts.TTLSeconds # << >> THEN "ErrUnsupportedFeature" ELSE "nil"

validatePutOptions(opts) ==
    IF opts.TTLSeconds # << >> THEN "ErrUnsupportedFeature"
    ELSE IF opts.IfETagMatch # "" \/ opts.IfAbsent THEN "ErrUnsupportedFeature"
    ELSE "nil"

\* Client.Put over the in-memory backend, whose PutRaw is the store's Put.
putRawJSON(ctx, key, value, opts, etag) ==
    LET call == [NoCall EXCEPT !.op = "put", !.ctx = ctx, !.key = key, !.opts = opts]
    IN IF key = NoKey THEN
          /\ last' = [call EXCEPT !.err = "key is required"]
          /\ UNCHANGED <<now, items, hashes, trav, fsVars>>
       ELSE IF validatePutOptions(opts) # "nil" THEN
          /\ last' = [call EXCEPT !.err = validatePutOptions(opts)]
          /\ UNCHANGED <<now, items, hashes, trav, fsVars>>
       ELSE putItem(ctx, key, value, opts, etag)

\* Client.HSet over the in-memory backend, whose HSetRaw is the store's HSet.
putHashRawJSON(ctx, hashKey, field, value, opts, etag) ==
    LET call == [NoCall EXCEPT !.op = "hset", !.ctx = ctx, !.key = hashKey, !.field = field,
                               !.opts = opts]
    IN IF hashKey = NoKey THEN
          /\ last' = [call EXCEPT !.err = "hash key is required"]
          /\ UNCHANGED <<now, items, hashes, trav, fsVars>>
       ELSE IF field = NoKey THEN
          /\ last' = [call EXCEPT !.err = "hash field is required"]
          /\ UNCHANGED <<now, items, hashes, trav, fsVars>>
       ELSE IF validatePutOptions(opts) # "nil" THEN
          /\ last' = [call EXCEPT !.err = validatePutOptions(opts)]
          /\ UNCHANGED <<now, items, hashes, trav, fsVars>>
       ELSE putHashItem(ctx, hashKey, field, value, opts, etag)

\* -------------------------------------------------------------- file store
\* pkg/r1fs/mock: each action is one section of a call during which the
\* store's mutex is held without interruption; a call that takes the mutex
\* twice is two actions, and other goroutines may run in between.

normalizePathAsIs(path) ==
    IF path = << >> THEN <<"/">> ELSE path

normalizePath(path) ==
    IF path = << >> THEN <<"/">>
    ELSE IF ~HasPrefix(path, <<"/">>) THEN <<"/">> \o path
    ELSE path

normalizeDirNoSlash(dir) ==
    IF dir = << >> \/ dir = <<"/">> THEN <<"/">>
    ELSE normalizePath(dir)

normalizeDir(dir) ==
    IF dir = << >> \/ dir = <<"/">> THEN <<"/">>
    ELSE LET n == normalizePath(dir)
         IN IF n[Len(n)] # "/" THEN n \o <<"/">> ELSE n

\* strings.TrimPrefix(s, "/")
TrimSlash(s) == IF HasPrefix(s, <<"/">>) THEN SubSeq(s, 2, Len(s)) ELSE s

\* optsMetadata with only the secret set in the options ("" for none).
optsMetadata(secret) ==
    IF secret # "" THEN [k \in {"r1fs.secret"} |-> secret] ELSE EmptyMap

\* A panic in any goroutine ends the program.
Running == \A p \in Procs : pc[p] # "panicked"

Idle(p) == Running /\ pc[p] = "idle"

FsCall(p, ctx, op, path) ==
    [NoFsCall EXCEPT !.op = op, !.proc = p, !.ctx = ctx, !.path = path, !.at = now]

\* base64.StdEncoding.DecodeString on the payloads used in seeds.
base64Decode(text) ==
    CASE text = "ZDE=" -> [ok |-> TRUE, data |-> "d1"]
      [] text = "" -> [ok |-> TRUE, data |-> ""]
      [] OTHER -> [ok |-> FALSE, data |-> ""]

\* r1fs Mock.Seed: one locked section that applies the entries in order; the
\* first entry without a path or with an undecodable payload ends the load.
RECURSIVE seedFiles(_, _, _, _)
seedFiles(fs, names, entries, i) ==
    IF i > Len(entries) THEN [files |-> fs, fileNames |-> names, err |-> "nil"]
    ELSE IF entries[i].Path = << >> THEN
       [files |-> fs, fileNames |-> names, err |-> "seed entry missing path"]
    ELSE IF ~base64Decode(entries[i].Base64).ok THEN
       [files |-> fs, fileNames |-> names, err |-> "decode base64"]
    ELSE LET path == normalizePath(entries[i].Path)
             key == IF TrimSlash(path) = << >> THEN <<"/">> ELSE TrimSlash(path)
         IN seedFiles(MapPut(fs, path, [data |-> base64Decode(entries[i].Base64).data,
                                        metadata |-> EmptyMap, modTime |-> now]),
                      MapPut(names, key, path), entries, i + 1)

fsSeed(entries) ==
    /\ Running
    /\ UNCHANGED <<kvVars, yamlDocs, pc, loc>>
    /\ \E r \in {seedFiles(files, fileNames, entries, 1)} :
          /\ files' = r.files
          /\ fileNames' = r.fileNames
          /\ fsLast' = [NoFsCall EXCEPT !.op = "seed", !.err = r.err]

fsUploadLocked(p, ctx, path, data, secret) ==
    /\ Idle(p)
    /\ UNCHANGED <<kvVars, fileNames, yamlDocs, pc>>
    /\ IF path = << >> THEN
          /\ fsLast' = [FsCall(p, ctx, "upload", path) EXCEPT !.err = "path is required"]
          /\ UNCHANGED files
       ELSE IF ctxErr(ctx) # "nil" THEN
          /\ fsLast' = [FsCall(p, ctx, "upload", path) EXCEPT !.err = ctxErr(ctx)]
          /\ UNCHANGED files
       ELSE
          /\ files' = MapPut(files, normalizePath(path),
                             [data |-> data, metadata |-> optsMetadata(secret),
                              modTime |-> now])
          /\ fsLast' = [FsCall(p, ctx, "upload", path) EXCEPT
                          !.data = data, !.secret = secret,
                          !.replaced = normalizePath(path) \in DOMAIN files]

fsUpload(p, ctx, path, data, secret) ==
    fsUploadLocked(p, ctx, path, data, secret) /\ UNCHANGED loc

\* The one locked section of AddFile; cid is the value newETag() draws.
addFileStore(cid, filename, data, secret) ==
    /\ files' = MapPut(files, normalizePath(cid),
                       [data |-> data,
                        metadata |-> MapPut(optsMetadata(secret), "r1fs.filename", filename),
                        modTime |-> now])
    /\ fileNames' = MapPut(fileNames, cid, filename)

fsAddFileLocked(p, ctx, filename, data, secret, cid) ==
    /\ Idle(p)
    /\ UNCHANGED <<kvVars, yamlDocs, pc>>
    /\ IF filename = << >> THEN
          /\ fsLast' = [FsCall(p, ctx, "addFile", << >>) EXCEPT !.err = "filename is required"]
          /\ UNCHANGED <<files, fileNames>>
       ELSE IF ctxErr(ctx) # "nil" THEN
          /\ fsLast' = [FsCall(p, ctx, "addFile", << >>) EXCEPT !.err = ctxErr(ctx)]
          /\ UNCHANGED <<files, fileNames>>
       ELSE
          /\ addFileStore(cid, filename, data, secret)
          /\ fsLast' = [FsCall(p, ctx, "addFile", cid) EXCEPT
                          !.cid = cid, !.data = data, !.filename = filename,
                          !.secret = secret]

fsAddFile(p, ctx, filename, data, secret, cid) ==
    fsAddFileLocked(p, ctx, filename, data, secret, cid) /\ UNCHANGED loc

\* Download's lookup under the read lock: entries carry no expiry and the
\* clock is not read.
downloadFoundFresh(path) ==
    /\ normalizePath(path) \in DOMAIN files
    /\ files[normalizePath(path)].modTime >= now

downloadFound(path) == normalizePath(path) \in DOMAIN files

fsDownloadLocked(p, ctx, path) ==
    /\ Idle(p)
    /\ UNCHANGED <<kvVars, files, fileNames, yamlDocs, pc>>
    /\ fsLast' =
          IF path = << >> THEN
             [FsCall(p, ctx, "download", path) EXCEPT !.err = "path is required"]
          ELSE IF ctxErr(ctx) # "nil" THEN
             [FsCall(p, ctx, "download", path) EXCEPT !.err = ctxErr(ctx)]
          ELSE IF ~downloadFound(path) THEN
             [FsCall(p, ctx, "download", path) EXCEPT !.err = "ErrNotFound"]
          ELSE [FsCall(p, ctx, "download", path) EXCEPT
                  !.data = files[normalizePath(path)].data]

fsDownload(p, ctx, path) == fsDownloadLocked(p, ctx, path) /\ UNCHANGED loc

\* The filename GetFile reports: the one indexed under the cid as given, or
\* else the normalized path without its leading slash.
getFileNameFromPath(cid) == TrimSlash(normalizePath(cid))
getFileName(cid) ==
    IF cid \in DOMAIN fileNames /\ fileNames[cid] # << >>
    THEN fileNames[cid]
    ELSE TrimSlash(normalizePath(cid))

\* GetFile receives the secret and never reads it.
fsGetFileLocked(p, ctx, cid, secret) ==
    /\ Idle(p)
    /\ UNCHANGED <<kvVars, files, fileNames, yamlDocs, pc>>
    /\ fsLast' =
          IF cid = << >> THEN
             [FsCall(p, ctx, "getFile", cid) EXCEPT !.err = "cid is required"]
          ELSE IF ctxErr(ctx) # "nil" THEN
             [FsCall(p, ctx, "getFile", cid) EXCEPT !.err = ctxErr(ctx)]
          ELSE IF normalizePath(cid) \notin DOMAIN files THEN
             [FsCall(p, ctx, "getFile", cid) EXCEPT !.cid = cid, !.secret = secret,
                                                   !.err = "ErrNotFound"]
          ELSE [FsCall(p, ctx, "getFile", normalizePath(cid)) EXCEPT
                  !.cid = cid, !.secret = secret,
                  !.filename = getFileName(cid),
                  !.meta = <<files[normalizePath(cid)].metadata>>]

fsGetFile(p, ctx, cid, secret) == fsGetFileLocked(p, ctx, cid, secret) /\ UNCHANGED loc

\* json.Marshal of a Go string value.
jsonMarshal(value) == "\"" \o value \o "\""

\* AddYAML, first locked section: the AddFile call it delegates to, with the
\* serialized document as the file's bytes.
fsAddYAML_AddFile(p, ctx, value, filename, secret, cid) ==
    /\ Idle(p)
    /\ UNCHANGED <<kvVars, yamlDocs>>
    /\ IF value = NilDoc THEN
          /\ fsLast' = [FsCall(p, ctx, "addYAML", << >>) EXCEPT
                          !.err = "yaml data is required"]
          /\ UNCHANGED <<files, fileNames, pc, loc>>
       ELSE IF ctxErr(ctx) # "nil" THEN
          /\ fsLast' = [FsCall(p, ctx, "addYAML", << >>) EXCEPT !.err = ctxErr(ctx)]
          /\ UNCHANGED <<files, fileNames, pc, loc>>
       ELSE
          /\ addFileStore(cid, IF filename = << >> THEN <<"document.yaml">> ELSE filename,
                          jsonMarshal(value), secret)
          /\ pc' = [pc EXCEPT ![p] = "yaml_index"]
          /\ loc' = [loc EXCEPT ![p] = [NoLocals EXCEPT !.cid = cid, !.value = value,
                                                     !.payload = jsonMarshal(value),
                                                     !.seen = files']]
          /\ UNCHANGED fsLast

\* AddYAML, second locked section: the document index entry.
fsAddYAML_Index(p) ==
    /\ Running /\ pc[p] = "yaml_index"
    /\ UNCHANGED <<kvVars, files, fileNames>>
    /\ yamlDocs' = MapPut(yamlDocs, loc[p].cid, loc[p].payload)
    /\ fsLast' = [FsCall(p, Background, "addYAML", loc[p].cid) EXCEPT
                    !.cid = loc[p].cid, !.value = loc[p].value]
    /\ pc' = [pc EXCEPT ![p] = "idle"]
    /\ loc' = [loc EXCEPT ![p] = NoLocals]

\* What GetYAML answers for a cid that is not indexed: json.Marshal("error").
yamlNotFoundNull == "null"
yamlNotFound == jsonMarshal("error")

\* json.Marshal(map[string]json.RawMessage{"file_data": raw}): the raw
\* document bytes are embedded as they are.
fileDataObjectQuoted(raw) == "{\"file_data\":" \o jsonMarshal(raw) \o "}"
fileDataObject(raw) == "{\"file_data\":" \o raw \o "}"

\* GetYAML receives the secret and never reads it.
fsGetYAMLLocked(p, ctx, cid, secret) ==
    /\ Idle(p)
    /\ UNCHANGED <<kvVars, files, fileNames, yamlDocs, pc>>
    /\ fsLast' =
          IF cid = << >> THEN
             [FsCall(p, ctx, "getYAML", cid) EXCEPT !.err = "cid is required"]
          ELSE IF ctxErr(ctx) # "nil" THEN
             [FsCall(p, ctx, "getYAML", cid) EXCEPT !.err = ctxErr(ctx)]
          ELSE IF cid \notin DOMAIN yamlDocs THEN
             [FsCall(p, ctx, "getYAML", cid) EXCEPT !.cid = cid, !.secret = secret,
                                                   !.data = yamlNotFound]
          ELSE [FsCall(p, ctx, "getYAML", cid) EXCEPT
                  !.cid = cid, !.secret = secret,
                  !.data = fileDataObject(yamlDocs[cid])]

fsGetYAML(p, ctx, cid, secret) == fsGetYAMLLocked(p, ctx, cid, secret) /\ UNCHANGED loc

fsStatLocked(p, ctx, path) ==
    /\ Idle(p)
    /\ UNCHANGED <<kvVars, files, fileNames, yamlDocs, pc>>
    /\ fsLast' =
          IF path = << >> THEN
             [FsCall(p, ctx, "stat", path) EXCEPT !.err = "path is required"]
          ELSE IF ctxErr(ctx) # "nil" THEN
             [FsCall(p, ctx, "stat", path) EXCEPT !.err = ctxErr(ctx)]
          ELSE IF normalizePath(path) \notin DOMAIN files THEN
             [FsCall(p, ctx, "stat", path) EXCEPT !.err = "ErrNotFound"]
          ELSE [FsCall(p, ctx, "stat", normalizePath(path)) EXCEPT
                  !.meta = <<files[normalizePath(path)].metadata>>]

fsStat(p, ctx, path) == fsStatLocked(p, ctx, path) /\ UNCHANGED loc

\* The file table after Delete has removed the entry at the normalized path.
deleteFileAsGiven(path) == MapDelete(files, path)
deleteFile(path) == MapDelete(files, normalizePath(path))

fsDeleteLocked(p, ctx, path) ==
    /\ Idle(p)
    /\ UNCHANGED <<kvVars, fileNames, yamlDocs, pc>>
    /\ IF path = << >> THEN
          /\ fsLast' = [FsCall(p, ctx, "delete", path) EXCEPT !.err = "path is required"]
          /\ UNCHANGED files
       ELSE IF ctxErr(ctx) # "nil" THEN
          /\ fsLast' = [FsCall(p, ctx, "delete", path) EXCEPT !.err = ctxErr(ctx)]
          /\ UNCHANGED files
       ELSE IF normalizePath(path) \notin DOMAIN files THEN
          /\ fsLast' = [FsCall(p, ctx, "delete", path) EXCEPT !.err = "ErrNotFound"]
          /\ UNCHANGED files
       ELSE
          /\ files' = deleteFile(path)
          /\ fsLast' = FsCall(p, ctx, "delete", path)

fsDelete(p, ctx, path) == fsDeleteLocked(p, ctx, path) /\ UNCHANGED loc

\* List, first read-locked section: collect the paths under the directory.
\* Sorting and the page bounds are computed on the goroutine's own copy.
fsList_Scan(p, ctx, dir, cursor, limit) ==
    /\ Idle(p)
    /\ UNCHANGED <<kvVars, files, fileNames, yamlDocs>>
    /\ IF ctxErr(ctx) # "nil" THEN
          /\ fsLast' = [FsCall(p, ctx, "list", << >>) EXCEPT
                          !.dir = dir, !.cursor = cursor, !.limit = limit,
                          !.err = ctxErr(ctx)]
          /\ UNCHANGED <<pc, loc>>
       ELSE
          /\ \E keys \in {SortStrings({path \in DOMAIN files :
                                         HasPrefix(path, normalizeDir(dir))})} :
             \E start \in {listStart(keys, cursor)} :
                loc' = [loc EXCEPT ![p] =
                          [NoLocals EXCEPT !.keys = keys, !.start = start,
                                           !.end = listEnd(keys, start, limit),
                                           !.dir = dir, !.cursor = cursor,
                                           !.limit = limit, !.seen = files]]
          /\ pc' = [pc EXCEPT ![p] = "list_read"]
          /\ UNCHANGED fsLast

\* List, second read-locked section: look every selected path up again and
\* build its stat; a path deleted since the scan yields a nil entry, whose
\* dereference panics.
fsList_Read(p) ==
    /\ Running /\ pc[p] = "list_read"
    /\ UNCHANGED <<kvVars, files, fileNames, yamlDocs>>
    /\ LET keys == loc[p].keys
           pagePaths == SubSeq(keys, loc[p].start + 1, loc[p].end)
           call == [FsCall(p, Background, "list", << >>) EXCEPT
                      !.dir = loc[p].dir, !.cursor = loc[p].cursor,
                      !.limit = loc[p].limit]
       IN IF \E i \in 1 .. Len(pagePaths) : pagePaths[i] \notin DOMAIN files THEN
             /\ fsLast' = [call EXCEPT !.err = "panic"]
             /\ pc' = [pc EXCEPT ![p] = "panicked"]
             /\ UNCHANGED loc
          ELSE
             /\ fsLast' = [call EXCEPT
                             !.page = [i \in 1 .. Len(pagePaths) |->
                                         [Path |-> pagePaths[i],
                                          Metadata |-> files[pagePaths[i]].metadata]],
                             !.nextCursor = listNextCursor(keys, loc[p].end)]
             /\ pc' = [pc EXCEPT ![p] = "idle"]
             /\ loc' = [loc EXCEPT ![p] = NoLocals]

\* pkg/r1fs httpBackend, the remote backend behind the same Client.  What
\* the remote service stores is outside this model: a request either comes
\* back (err "nil") or fails in transport.  Stat, List and Delete send no
\* request at all.
HttpOutcomes == {"nil", "transport"}

httpDo(p, ctx, op, path, err) ==
    /\ Idle(p)
    /\ UNCHANGED <<kvVars, files, fileNames, yamlDocs, pc, loc>>
    /\ fsLast' = [FsCall(p, ctx, op, path) EXCEPT !.backend = "http", !.err = err]

httpStat(p, ctx, path) ==
    /\ Idle(p)
    /\ UNCHANGED <<kvVars, files, fileNames, yamlDocs, pc, loc>>
    /\ fsLast' = [FsCall(p, ctx, "stat", path) EXCEPT
                    !.backend = "http", !.err = "ErrUnsupportedFeature"]

httpList(p, ctx, dir, cursor, limit) ==
    /\ Idle(p)
    /\ UNCHANGED <<kvVars, files, fileNames, yamlDocs, pc, loc>>
    /\ fsLast' = [FsCall(p, ctx, "list", << >>) EXCEPT
                    !.dir = dir, !.cursor = cursor, !.limit = limit,
                    !.backend = "http", !.err = "ErrUnsupportedFeature"]

httpDelete(p, ctx, path) ==
    /\ Idle(p)
    /\ UNCHANGED <<kvVars, files, fileNames, yamlDocs, pc, loc>>
    /\ fsLast' = [FsCall(p, ctx, "delete", path) EXCEPT
                    !.backend = "http", !.err = "ErrUnsupportedFeature"]

Next ==
    \/ Tick
    \/ \E key \in Keys \cup {NoKey} : getItem(Background, key)
    \/ \E key \in Keys, value \in Values, opts \in PutOptionsSet, etag \in ETags :
          putItem(Background, key, value, opts, etag)
    \/ \E value \in Values, etag \in ETags :
          putItem(Background, NoKey, value, NilOptions, etag)
    \/ \E key \in Keys \cup {NoKey} : Delete(Background, key)

Spec == Init /\ [][Next]_vars

\* The listing specification: three keys sharing prefixes, one value, one
\* etag, unconditional writes; the middle key may be written with a TTL.
ListOptions == [TTLSeconds : TTLChoices, IfETagMatch : {""}, IfAbsent : {FALSE}]

NextList ==
    \/ Tick
    \/ \E key \in ListKeys : putItem(Background, key, "v1", NilOptions, "e1")
    \/ \E opts \in ListOptions : putItem(Background, <<"a", "1">>, "v1", opts, "e1")
    \/ \E key \in ListKeys : Delete(Background, key)
    \/ \E prefix \in Prefixes, cursor \in Cursors, limit \in Limits :
          List(Background, prefix, cursor, limit)
    \/ \E prefix \in Prefixes, limit \in Limits : FirstPage(prefix, limit)
    \/ NextPage

SpecList == Init /\ [][NextList]_vars

\* The hash-store specification: one bucket of two fields.
NextHash ==
    \/ Tick
    \/ \E hashKey \in HashKeys \cup {NoKey}, field \in Fields \cup {NoKey} :
          getHashItem(Background, hashKey, field)
    \/ \E hashKey \in HashKeys, field \in Fields, opts \in PutOptionsSet, etag \in ETags :
          putHashItem(Background, hashKey, field, "v1", opts, etag)
    \/ \E hashKey \in HashKeys \cup {NoKey}, field \in Fields \cup {NoKey}, etag \in ETags :
          /\ (hashKey = NoKey \/ field = NoKey)
          /\ putHashItem(Background, hashKey, field, "v1", NilOptions, etag)
    \/ \E hashKey \in HashKeys \cup {NoKey} : listHashItems(Background, hashKey)

SpecHash == Init /\ [][NextHash]_vars

\* The hash-scope specification: conditional writes to the two fields of
\* bucket h, next to a field of the same name in bucket g and a value-store
\* key of the same name.
OtherHashKey == <<"g">>

NextHashScope ==
    \/ Tick
    \/ \E field \in Fields, opts \in PutOptionsSet, etag \in ETags :
          putHashItem(Background, <<"h">>, field, "v1", opts, etag)
    \/ putHashItem(Background, OtherHashKey, <<"a">>, "v2", NilOptions, "e2")
    \/ getHashItem(Background, OtherHashKey, <<"a">>)
    \/ putItem(Background, <<"a">>, "v2", NilOptions, "e2")
    \/ Delete(Background, <<"a">>)

SpecHashScope == Init /\ [][NextHashScope]_vars

\* The file-store specification: two goroutines calling one store.
NextFS ==
    \E p \in Procs :
       \/ \E path \in FsPaths \cup {NoKey}, data \in FsData :
             fsUpload(p, Background, path, data, "")
       \/ \E filename \in FileNames \cup {NoKey}, data \in FsData, cid \in CIDs :
             fsAddFile(p, Background, filename, data, "", cid)
       \/ \E path \in FsPaths \cup CIDs : fsDownload(p, Background, path)
       \/ \E cid \in CIDs : fsGetFile(p, Background, cid, "")
       \/ \E doc \in Documents, cid \in CIDs :
             fsAddYAML_AddFile(p, Background, doc, NoKey, "", cid)
       \/ fsAddYAML_Index(p)
       \/ \E cid \in CIDs : fsGetYAML(p, Background, cid, "")
       \/ \E path \in FsPaths \cup CIDs : fsStat(p, Background, path)
       \/ \E path \in FsPaths \cup CIDs \cup {NoKey} : fsDelete(p, Background, path)
       \/ \E dir \in FsDirs, limit \in 0 .. 1 :
             fsList_Scan(p, Background, dir, << >>, limit)
       \/ fsList_Read(p)

SpecFS == Init /\ [][NextFS]_vars

\* The seeding specification: seed files of at most MaxSeed entries loaded
\* into the value store and into the file store, in any order and repeatedly.
SeedEntries == [Key : Keys \cup {NoKey}, Value : {"", "v1"}, TTLSeconds : TTLChoices]
FsSeedEntries == [Path : {NoKey, <<"a">>, <<"/", "b">>}, Base64 : {"ZDE=", "%%"}]
SeqsUpTo(S, n) == UNION {[1 .. k -> S] : k \in 0 .. n}

NextSeed ==
    \/ \E entries \in SeqsUpTo(SeedEntries, MaxSeed) :
          \E etags \in [1 .. Len(entries) -> ETags] : Seed(entries, etags)
    \/ \E entries \in SeqsUpTo(FsSeedEntries, MaxSeed) : fsSeed(entries)

SpecSeed == Init /\ [][NextSeed]_vars

\* The stored-file specification: two goroutines uploading to one path
\* spelled with and without its leading slash, adding files under generated
\* identifiers, and reading both back.
FileData == {"d1", "d2"}
MoreCIDs == {<<"c">>, <<"d">>}
MoreFileNames == {<<"n">>, <<"m">>}
Secrets == {"", "s"}

NextFile ==
    \E p \in Procs :
       \/ \E path \in FsPaths \cup {NoKey}, data \in FileData :
             fsUpload(p, Background, path, data, "")
       \/ \E filename \in MoreFileNames \cup {NoKey}, secret \in Secrets, cid \in MoreCIDs :
             fsAddFile(p, Background, filename, "d1", secret, cid)
       \/ \E path \in FsPaths : fsDownload(p, Background, path)
       \/ \E cid \in MoreCIDs \cup {NoKey}, secret \in Secrets :
             fsGetFile(p, Background, cid, secret)
       \/ \E path \in FsPaths \cup MoreCIDs : fsDelete(p, Background, path)

SpecFile == Init /\ [][NextFile]_vars

\* The document specification: goroutine g1 adds documents, both read them
\* back, and g2 deletes and adds plain files under the same identifiers.
DocValues == {"y1", "y2"}

NextDoc ==
    \/ \E value \in DocValues \cup {NilDoc}, cid \in MoreCIDs :
          fsAddYAML_AddFile("g1", Background, value, NoKey, "", cid)
    \/ fsAddYAML_Index("g1")
    \/ \E p \in Procs, cid \in MoreCIDs \cup {NoKey} : fsGetYAML(p, Background, cid, "")
    \/ \E cid \in MoreCIDs : fsDelete("g2", Background, cid)
    \/ fsAddFile("g2", Background, <<"n">>, "d1", "", <<"d">>)

SpecDoc == Init /\ [][NextDoc]_vars

\* The directory-listing specification: goroutine g1 lists while g2 uploads
\* and deletes; two files in directory /a, a sibling /a1 and a file /b
\* outside it.
ListPaths == {<<"/", "a", "/", "b">>, <<"/", "a", "/", "c">>, <<"/", "a", "1">>, <<"/", "b">>}
ListDirs == {<< >>, <<"/">>, <<"/", "a">>, <<"a", "/">>}
ListCursors == {<< >>, <<"/", "a", "/", "b">>, <<"/", "a", "0">>}

NextFsList ==
    \/ \E path \in ListPaths : fsUpload("g2", Background, path, "d1", "")
    \/ \E path \in ListPaths : fsDelete("g2", Background, path)
    \/ \E dir \in ListDirs, cursor \in ListCursors, limit \in 0 .. 1 :
          fsList_Scan("g1", Background, dir, cursor, limit)
    \/ fsList_Read("g1")

SpecFsList == Init /\ [][NextFsList]_vars

\* The cancellation specification: one key, one hash field and one path,
\* every call made with a context that is live or already cancelled.
CtxKeys == {<<"a">>}

NextCtx ==
    \/ Tick
    \/ \E ctx \in Contexts, key \in CtxKeys \cup {NoKey} : getItem(ctx, key)
    \/ \E ctx \in Contexts, key \in CtxKeys, opts \in ListOptions :
          putItem(ctx, key, "v1", opts, "e1")
    \/ \E ctx \in Contexts, key \in CtxKeys : Delete(ctx, key)
    \/ \E ctx \in Contexts : List(ctx, << >>, << >>, 0)
    \/ \E ctx \in Contexts, hashKey \in HashKeys, field \in CtxKeys :
          getHashItem(ctx, hashKey, field)
    \/ \E ctx \in Contexts, hashKey \in HashKeys, field \in CtxKeys :
          putHashItem(ctx, hashKey, field, "v1", NilOptions, "e1")
    \/ \E ctx \in Contexts, hashKey \in HashKeys : listHashItems(ctx, hashKey)
    \/ \E ctx \in Contexts, path \in CtxKeys, data \in FsData :
          fsUpload("g1", ctx, path, data, "")
    \/ \E ctx \in Contexts, path \in CtxKeys : fsDownload("g1", ctx, path)
    \/ \E ctx \in Contexts, path \in CtxKeys : fsDelete("g1", ctx, path)

SpecCtx == Init /\ [][NextCtx]_vars

\* The stored-path specification: the clock advances while files are
\* uploaded, added, read and deleted at path /a spelled both ways, at /b and
\* at the path of a generated identifier.
StoredPaths == {<<"a">>, <<"/", "a">>, <<"/", "b">>}

NextStored ==
    \/ Tick
    \/ \E path \in StoredPaths \cup {NoKey} : fsUpload("g1", Background, path, "d1", "")
    \/ \E cid \in CIDs : fsAddFile("g1", Background, <<"n">>, "d1", "", cid)
    \/ \E path \in StoredPaths \cup CIDs \cup {NoKey} : fsDownload("g1", Background, path)
    \/ \E path \in StoredPaths \cup CIDs \cup {NoKey} : fsStat("g1", Background, path)
    \/ \E path \in StoredPaths \cup CIDs \cup {NoKey} : fsDelete("g1", Background, path)

SpecStored == Init /\ [][NextStored]_vars

\* The facade specification: a store seeded at start-up with entries that
\* may carry a TTL, then written through Client.Put and Client.HSet with
\* every combination of options, a TTL of zero seconds included.
FacadeOptions ==
    [TTLSeconds : TTLChoices \cup {<<0>>}, IfETagMatch : TagChoices, IfAbsent : BOOLEAN]

FacadeSeed == [Key : {<<"a">>}, Value : {"v1"}, TTLSeconds : TTLChoices]

NextFacade ==
    \/ Tick
    \/ \E entries \in SeqsUpTo(FacadeSeed, 1) : Seed(entries, [i \in 1 .. Len(entries) |-> "e1"])
    \/ \E key \in {<<"a">>, NoKey}, opts \in FacadeOptions :
          putRawJSON(Background, key, "v2", opts, "e2")
    \/ \E hashKey \in HashKeys \cup {NoKey}, field \in {<<"a">>, NoKey},
          opts \in FacadeOptions :
          putHashRawJSON(Background, hashKey, field, "v2", opts, "e1")
    \/ getItem(Background, <<"a">>)

SpecFacade == Init /\ [][NextFacade]_vars

\* The two-backend specification: client g1 over the in-memory backend and
\* client g2 over the HTTP backend make the same file-store calls.
HttpOps == {"upload", "download", "addFile", "getFile", "addYAML", "getYAML"}

NextBackends ==
    \/ \E path \in FsPaths : fsUpload("g1", Background, path, "d1", "")
    \/ \E cid \in CIDs : fsAddFile("g1", Background, <<"n">>, "d1", "", cid)
    \/ \E path \in FsPaths \cup CIDs : fsDownload("g1", Background, path)
    \/ \E cid \in CIDs : fsGetFile("g1", Background, cid, "")
    \/ \E path \in FsPaths \cup CIDs : fsStat("g1", Background, path)
    \/ \E path \in FsPaths \cup CIDs : fsDelete("g1", Background, path)
    \/ \E dir \in FsDirs : fsList_Scan("g1", Background, dir, << >>, 0)
    \/ fsList_Read("g1")
    \/ \E op \in HttpOps, path \in FsPaths \cup CIDs, err \in HttpOutcomes :
          httpDo("g2", Background, op, path, err)
    \/ \E path \in FsPaths \cup CIDs : httpStat("g2", Background, path)
    \/ \E path \in FsPaths \cup CIDs : httpDelete("g2", Background, path)
    \/ \E dir \in FsDirs : httpList("g2", Background, dir, << >>, 0)

SpecBackends == Init /\ [][NextBackends]_vars

\* The optimistic-concurrency specification: two clients of one store.
\* Each reads key a and, having found it, writes it back on condition that
\* its etag is still the one read; the etag a write draws differs from the
\* one it replaces.  The entry is created, with or without a TTL, while no
\* client is between its read and its write, and the clock advances freely.
clientRead(p, key) ==
    /\ Running /\ pc[p] = "idle"
    /\ getItemLocked(Background, key)
    /\ IF last'.found = "live"
       THEN /\ pc' = [pc EXCEPT ![p] = "read"]
            /\ loc' = [loc EXCEPT ![p] = [NoLocals EXCEPT !.etag = last'.item[1].ETag]]
       ELSE UNCHANGED <<pc, loc>>
    /\ UNCHANGED <<files, fileNames, yamlDocs, fsLast>>

clientWrite(p, key, value, etag) ==
    /\ Running /\ pc[p] = "read"
    /\ putItemLocked(Background, key, value,
                     [NilOptions EXCEPT !.IfETagMatch = loc[p].etag], etag)
    /\ pc' = [pc EXCEPT ![p] = "written"]
    /\ loc' = [loc EXCEPT ![p].found = last'.found, ![p].result = last'.err]
    /\ UNCHANGED <<files, fileNames, yamlDocs, fsLast>>

clientsDone ==
    /\ \A p \in Procs : pc[p] = "written"
    /\ pc' = [p \in Procs |-> "idle"]
    /\ loc' = [p \in Procs |-> NoLocals]
    /\ UNCHANGED <<kvVars, files, fileNames, yamlDocs, fsLast>>

NextOCC ==
    \/ Tick
    \/ \E opts \in ListOptions :
          /\ \A p \in Procs : pc[p] = "idle"
          /\ putItem(Background, <<"a">>, "v1", opts, "e1")
    \/ \E p \in Procs : clientRead(p, <<"a">>)
    \/ \E p \in Procs, value \in Values :
          \E etag \in ETags \ {loc[p].etag} : clientWrite(p, <<"a">>, value, etag)
    \/ clientsDone

SpecOCC == Init /\ [][NextOCC]_vars

\* The traversal specification: goroutine g1 pages through the store from
\* the empty cursor, feeding each nextCursor into its next call, while other
\* callers write, overwrite and delete keys and the clock advances between
\* its pages.  acc is what g1 has been handed so far; steady is the set of
\* the keys under the prefix that have held a live entry at every moment
\* since the traversal began.
traverseFirst(p, prefix, limit) ==
    /\ pc[p] = "idle"
    /\ listItemsLocked(Background, prefix, << >>, limit)
    /\ pc' = [pc EXCEPT ![p] = IF last'.nextCursor = << >> THEN "traversed" ELSE "paging"]
    /\ loc' = [loc EXCEPT ![p] =
                  [NoLocals EXCEPT !.prefix = prefix, !.limit = limit,
                                   !.cursor = last'.nextCursor,
                                   !.acc = PageKeys(last'.page),
                                   !.steady = {k \in DOMAIN items :
                                                  /\ ~expired(items[k], now)
                                                  /\ (prefix = << >> \/ HasPrefix(k, prefix))}]]
    /\ trav' = IdleTrav
    /\ UNCHANGED <<files, fileNames, yamlDocs, fsLast>>

traverseNext(p) ==
    /\ pc[p] = "paging"
    /\ listItemsLocked(Background, loc[p].prefix, loc[p].cursor, loc[p].limit)
    /\ pc' = [pc EXCEPT ![p] = IF last'.nextCursor = << >> THEN "traversed" ELSE "paging"]
    /\ loc' = [loc EXCEPT ![p].cursor = last'.nextCursor,
                          ![p].acc = loc[p].acc \o PageKeys(last'.page)]
    /\ trav' = IdleTrav
    /\ UNCHANGED <<files, fileNames, yamlDocs, fsLast>>

traverseEnd(p) ==
    /\ pc[p] = "traversed"
    /\ pc' = [pc EXCEPT ![p] = "idle"]
    /\ loc' = [loc EXCEPT ![p] = NoLocals]
    /\ UNCHANGED <<kvVars, files, fileNames, yamlDocs, fsLast>>

\* A step of another caller or of the clock, seen from the traversal: a key
\* whose entry is gone or past its TTL afterwards is no longer steady.
betweenPages(p) ==
    /\ loc' = [loc EXCEPT ![p].steady =
                  {k \in loc[p].steady : k \in DOMAIN items' /\ ~expired(items'[k], now')}]
    /\ UNCHANGED <<files, fileNames, yamlDocs, pc, fsLast>>

TraversePrefixes == {<< >>, <<"a">>}

NextTraverse ==
    \/ clockAdvance /\ betweenPages("g1")
    \/ \E key \in ListKeys :
          putItemLocked(Background, key, "v1", NilOptions, "e1") /\ betweenPages("g1")
    \/ \E opts \in ListOptions :
          putItemLocked(Background, <<"a", "1">>, "v1", opts, "e1") /\ betweenPages("g1")
    \/ \E key \in ListKeys : DeleteLocked(Background, key) /\ betweenPages("g1")
    \/ \E prefix \in TraversePrefixes, limit \in 1 .. MaxLimit :
          traverseFirst("g1", prefix, limit)
    \/ traverseNext("g1")
    \/ traverseEnd("g1")

SpecTraverse == Init /\ [][NextTraverse]_vars

\* The locking specification.  Each store guards its maps with one
\* sync.RWMutex; a handler takes it in the mode its code asks for, runs its
\* section and gives it back.  loc[p].mu is the lock goroutine p holds and
\* loc[p].op the call it is in.  Lock waits until nobody holds the mutex,
\* RLock until no writer does.
cstoreLockModeSharedReads(op) ==
    IF op \in {"get", "list", "hget", "hgetall"} THEN "RLock" ELSE "Lock"

cstoreLockMode(op) == "Lock"

r1fsLockMode(op) ==
    IF op \in {"download", "getFile", "getYAML", "stat", "list"} THEN "RLock" ELSE "Lock"

CstoreOps == {"get", "put", "list", "delete", "hget", "hset", "hgetall"}
R1fsOps == {"upload", "addFile", "download", "getFile", "addYAML", "getYAML", "stat",
            "delete", "list"}

muFree(store, mode) ==
    \A q \in Procs :
       /\ loc[q].mu # store \o ".Lock"
       /\ (mode = "Lock" => loc[q].mu # store \o ".RLock")

cstoreAcquire(p, op) ==
    /\ Idle(p) /\ loc[p].mu = ""
    /\ muFree("cstore", cstoreLockMode(op))
    /\ loc' = [loc EXCEPT ![p] = [NoLocals EXCEPT !.mu = "cstore." \o cstoreLockMode(op),
                                                  !.op = op]]
    /\ UNCHANGED <<kvVars, files, fileNames, yamlDocs, pc, fsLast>>

r1fsAcquire(p, op) ==
    /\ Idle(p) /\ loc[p].mu = ""
    /\ muFree("r1fs", r1fsLockMode(op))
    /\ loc' = [loc EXCEPT ![p] = [NoLocals EXCEPT !.mu = "r1fs." \o r1fsLockMode(op),
                                                  !.op = op]]
    /\ UNCHANGED <<kvVars, files, fileNames, yamlDocs, pc, fsLast>>

\* AddYAML and List take the mutex a second time for their second section.
r1fsAcquireAgain(p) ==
    /\ Running /\ pc[p] \in {"yaml_index", "list_read"} /\ loc[p].mu = ""
    /\ \E op \in {IF pc[p] = "yaml_index" THEN "addYAML" ELSE "list"} :
          /\ muFree("r1fs", r1fsLockMode(op))
          /\ loc' = [loc EXCEPT ![p].mu = "r1fs." \o r1fsLockMode(op), ![p].op = op]
    /\ UNCHANGED <<kvVars, files, fileNames, yamlDocs, pc, fsLast>>

\* The section of a value-store or hash-store handler, up to its unlock.
cstoreSection(p, key, opts) ==
    /\ Running /\ loc[p].mu \in {"cstore.Lock", "cstore.RLock"}
    /\ \/ loc[p].op = "get" /\ getItemLocked(Background, key)
       \/ loc[p].op = "put" /\ putItemLocked(Background, key, "v1", opts, "e1")
       \/ loc[p].op = "list" /\ listItemsLocked(Background, << >>, << >>, 0) /\ trav' = IdleTrav
       \/ loc[p].op = "delete" /\ DeleteLocked(Background, key)
       \/ loc[p].op = "hget" /\ getHashItemLocked(Background, <<"h">>, key)
       \/ loc[p].op = "hset" /\ putHashItemLocked(Background, <<"h">>, key, "v1", opts, "e1")
       \/ loc[p].op = "hgetall" /\ listHashItemsLocked(Background, <<"h">>)
    /\ loc' = [loc EXCEPT ![p] = NoLocals]
    /\ UNCHANGED <<files, fileNames, yamlDocs, pc, fsLast>>

\* The section of a file-store handler that has one, up to its unlock.
r1fsSection(p, path) ==
    /\ loc[p].mu \in {"r1fs.Lock", "r1fs.RLock"}
    /\ \/ loc[p].op = "upload" /\ fsUploadLocked(p, Background, path, "d1", "")
       \/ loc[p].op = "addFile" /\ fsAddFileLocked(p, Background, <<"n">>, "d1", "", path)
       \/ loc[p].op = "download" /\ fsDownloadLocked(p, Background, path)
       \/ loc[p].op = "getFile" /\ fsGetFileLocked(p, Background, path, "")
       \/ loc[p].op = "getYAML" /\ fsGetYAMLLocked(p, Background, path, "")
       \/ loc[p].op = "stat" /\ fsStatLocked(p, Background, path)
       \/ loc[p].op = "delete" /\ fsDeleteLocked(p, Background, path)
    /\ loc' = [loc EXCEPT ![p] = NoLocals]

\* The sections of AddYAML and List; each ends by giving the mutex back.
r1fsSectionOfTwo(p, path) ==
    /\ loc[p].mu \in {"r1fs.Lock", "r1fs.RLock"}
    /\ \/ /\ loc[p].op = "addYAML" /\ pc[p] = "idle"
          /\ fsAddYAML_AddFile(p, Background, "y1", NoKey, "", path)
       \/ loc[p].op = "addYAML" /\ fsAddYAML_Index(p)
       \/ /\ loc[p].op = "list" /\ pc[p] = "idle"
          /\ fsList_Scan(p, Background, << >>, << >>, 0)
       \/ loc[p].op = "list" /\ fsList_Read(p)

\* The two stores are separate objects with a mutex each and share nothing:
\* a behaviour exercises the handlers of one of them, called from two
\* goroutines, while the clock advances; writes carry a TTL so that the
\* reading handlers meet stale entries.
LockPaths == {<<"c">>}
LockOptions == [TTLSeconds : {<<MaxTTL>>}, IfETagMatch : {""}, IfAbsent : {FALSE}]

cstoreUntouched ==
    /\ last = NoCall
    /\ \A q \in Procs : loc[q].mu \notin {"cstore.Lock", "cstore.RLock"}

r1fsUntouched ==
    /\ fsLast = NoFsCall /\ files = EmptyMap
    /\ \A q \in Procs : pc[q] = "idle" /\ loc[q].mu \notin {"r1fs.Lock", "r1fs.RLock"}

NextLocks ==
    \/ Tick
    \/ \E p \in Procs, op \in CstoreOps : r1fsUntouched /\ cstoreAcquire(p, op)
    \/ \E p \in Procs, opts \in LockOptions : cstoreSection(p, <<"a">>, opts)
    \/ \E p \in Procs, op \in R1fsOps : cstoreUntouched /\ r1fsAcquire(p, op)
    \/ \E p \in Procs : r1fsAcquireAgain(p)
    \/ \E p \in Procs, path \in LockPaths : r1fsSection(p, path)
    \/ \E p \in Procs, path \in LockPaths : r1fsSectionOfTwo(p, path)

SpecLocks == Init /\ [][NextLocks]_vars

\* The never-expires specification: key a is written and seeded with every
\* kind of TTL request (unset, zero, negative, positive) and read back while
\* the clock advances; seeds ask for no TTL or a non-positive one.
ForeverTTLs == {<< >>, <<0>>, <<0 - 1>>, <<MaxTTL>>}
ForeverOptions == [TTLSeconds : ForeverTTLs, IfETagMatch : {""}, IfAbsent : {FALSE}]
ForeverSeed == [Key : {<<"a">>}, Value : {"v2"}, TTLSeconds : ForeverTTLs \ {<<MaxTTL>>}]

NextForever ==
    \/ Tick
    \/ \E key \in Keys : getItem(Background, key)
    \/ \E opts \in ForeverOptions, etag \in ETags :
          putItem(Background, <<"a">>, "v1", opts, etag)
    \/ putItem(Background, <<"b">>, "v1", NilOptions, "e1")
    \/ \E entry \in ForeverSeed, etag \in ETags : Seed(<<entry>>, <<etag>>)
    \/ \E key \in Keys : Delete(Background, key)

SpecForever == Init /\ [][NextForever]_vars

\* pkg/cstore Client, the read paths over the in-memory backend.  GetRaw
\* answers the stored bytes, or the bytes "null" for a key that is missing
\* or stale; decodeItem turns empty or "null" bytes into a nil item and
\* anything else into an item that carries the key and the value only.
backendGetRaw(key) ==
    IF key \in DOMAIN items /\ ~expired(items[key], now) THEN items[key].data ELSE "null"

decodeItem(key, data) ==
    IF data = "" \/ data = "null" THEN << >>
    ELSE <<[Key |-> key, Value |-> data, ETag |-> "", ExpiresAt |-> << >>]>>

\* Client.Get: one GetRaw, which sweeps a stale entry under the key.
clientGet(ctx, key) ==
    /\ UNCHANGED <<now, hashes, fsVars>>
    /\ IF ctxErr(ctx) # "nil" THEN
          /\ last' = [NoCall EXCEPT !.op = "get", !.ctx = ctx, !.key = key,
                                    !.err = ctxErr(ctx)]
          /\ UNCHANGED items
       ELSE
          /\ items' = putSweep(key)
          /\ last' = [NoCall EXCEPT !.op = "get", !.ctx = ctx, !.key = key,
                                    !.found = lookup(items, key),
                                    !.item = decodeItem(key, backendGetRaw(key)),
                                    !.nilResult = decodeItem(key, backendGetRaw(key)) = << >>]
    /\ trav' = IF items' = items THEN trav ELSE IdleTrav

\* Client.List, first step: ListKeys in one locked section of the backend,
\* then filter, sort and page bounds on the caller's copy.  keys holds the
\* keys selected for the page, start how many of them have been read.
clientList_Keys(p, ctx, prefix, cursor, limit) ==
    /\ Idle(p)
    /\ UNCHANGED <<now, hashes, files, fileNames, yamlDocs, fsLast>>
    /\ IF ctxErr(ctx) # "nil" THEN
          /\ last' = [NoCall EXCEPT !.op = "list", !.ctx = ctx, !.prefix = prefix,
                                    !.cursor = cursor, !.limit = limit, !.err = ctxErr(ctx)]
          /\ UNCHANGED <<items, pc, loc>>
       ELSE
          \E filtered \in {listKeys(prefix)} :
          \E start \in {listStart(filtered, cursor)} :
          \E end \in {listEnd(filtered, start, limit)} :
             /\ items' = listSweep
             /\ pc' = [pc EXCEPT ![p] = "list_get"]
             /\ loc' = [loc EXCEPT ![p] =
                          [NoLocals EXCEPT !.keys = SubSeq(filtered, start + 1, end),
                                           !.prefix = prefix, !.cursor = cursor,
                                           !.limit = limit,
                                           !.nextCursor = listNextCursor(filtered, end)]]
             /\ UNCHANGED last
    /\ trav' = IdleTrav

\* Client.List, the loop: one getItem per selected key, each a locked
\* section of its own; a nil item is left out of the page.
clientList_Get(p) ==
    /\ Running /\ pc[p] = "list_get" /\ loc[p].start < Len(loc[p].keys)
    /\ UNCHANGED <<now, hashes, last, files, fileNames, yamlDocs, pc, fsLast>>
    /\ \E key \in {loc[p].keys[loc[p].start + 1]} :
          /\ items' = putSweep(key)
          /\ loc' = [loc EXCEPT ![p].start = loc[p].start + 1,
                                ![p].acc = loc[p].acc \o decodeItem(key, backendGetRaw(key))]
    /\ trav' = IF items' = items THEN trav ELSE IdleTrav

\* Client.List returns the items it collected and the cursor.
clientList_Return(p) ==
    /\ Running /\ pc[p] = "list_get" /\ loc[p].start = Len(loc[p].keys)
    /\ UNCHANGED <<now, items, hashes, trav, files, fileNames, yamlDocs, fsLast>>
    /\ last' = [NoCall EXCEPT !.op = "list", !.prefix = loc[p].prefix,
                              !.cursor = loc[p].cursor, !.limit = loc[p].limit,
                              !.page = loc[p].acc, !.nextCursor = loc[p].nextCursor]
    /\ pc' = [pc EXCEPT ![p] = "idle"]
    /\ loc' = [loc EXCEPT ![p] = NoLocals]

\* The null-payload specification: one caller of the Client over a backend
\* seeded with empty and non-empty values, with and without a TTL; nothing
\* is written while a List is under way.
NullSeed == [Key : Keys, Value : {"", "v1"}, TTLSeconds : TTLChoices]

NextNull ==
    \/ Tick
    \/ \E entries \in SeqsUpTo(NullSeed, MaxSeed) :
          /\ pc["g1"] = "idle"
          /\ Seed(entries, [i \in 1 .. Len(entries) |-> "e1"])
    \/ \E key \in Keys, value \in {"v2", "null"} :
          /\ pc["g1"] = "idle"
          /\ putRawJSON(Background, key, value, NilOptions, "e2")
    \/ \E key \in Keys : clientGet(Background, key)
    \/ \E prefix \in {<< >>, <<"a">>}, limit \in 0 .. 1 :
          clientList_Keys("g1", Background, prefix, << >>, limit)
    \/ clientList_Get("g1")
    \/ clientList_Return("g1")

SpecNull == Init /\ [][NextNull]_vars

\* The facade-list specification: a caller pages through a backend seeded
\* with non-null values, some with a TTL, while the clock advances between
\* the backend's key listing and the per-key reads.
PagesSeed == [Key : ListKeys, Value : {"v1"}, TTLSeconds : TTLChoices]

NextPages ==
    \/ Tick
    \/ \E entries \in SeqsUpTo(PagesSeed, MaxSeed) :
          /\ pc["g1"] = "idle"
          /\ Seed(entries, [i \in 1 .. Len(entries) |-> "e1"])
    \/ \E prefix \in {<< >>, <<"a">>}, cursor \in {<< >>, <<"a">>}, limit \in 0 .. MaxLimit :
          clientList_Keys("g1", Background, prefix, cursor, limit)
    \/ clientList_Get("g1")
    \/ clientList_Return("g1")

SpecPages == Init /\ [][NextPages]_vars

\* ---------------------------------------------------------- internal/httpx
\* NewClient keeps the policy it is given, a negative MaxRetries made 0.
NewClient(policy) ==
    [policy EXCEPT !.MaxRetries = IF policy.MaxRetries < 0 THEN 0 ELSE policy.MaxRetries]

\* ctx.Err() of the caller's context.
doneErr(ctx) ==
    IF ctx = "canceled" THEN Canceled
    ELSE IF ctx = "deadline" THEN DeadlineExceeded
    ELSE "nil"

\* errors.Is(err, context.Canceled) || errors.Is(err, context.DeadlineExceeded)
isContextError(err) == err \in {Canceled, DeadlineExceeded}

\* handleError wraps a response of status >= 400 in an *HTTPError.
handleError(resp) == "HTTPError"

shouldRetryOffByOne(call, resp, err) ==
    IF call.DisableRetry THEN {FALSE}
    ELSE IF call.attempt > call.retryPolicy.MaxRetries THEN {FALSE}
    ELSE IF call.retryPolicy.RetryIf # "nil" THEN BOOLEAN
    ELSE IF err # "nil" THEN {~isContextError(err)}
    ELSE {FALSE}

shouldRetryContextErrors(call, resp, err) ==
    IF call.DisableRetry THEN {FALSE}
    ELSE IF call.attempt >= call.retryPolicy.MaxRetries THEN {FALSE}
    ELSE IF call.retryPolicy.RetryIf # "nil" THEN BOOLEAN
    ELSE IF err # "nil" THEN {TRUE}
    ELSE {FALSE}

\* shouldRetry, as the set of answers it can give: a set RetryIf decides
\* alone; otherwise any error but a context error is retried, and the
\* status tests are reached only with a nil error.
shouldRetry(call, resp, err) ==
    IF call.DisableRetry THEN {FALSE}
    ELSE IF call.attempt >= call.retryPolicy.MaxRetries THEN {FALSE}
    ELSE IF call.retryPolicy.RetryIf # "nil" THEN BOOLEAN
    ELSE IF err # "nil" THEN {~isContextError(err)}
    ELSE IF resp = 0 THEN {FALSE}
    ELSE IF resp = StatusTooManyRequests \/ resp = StatusRequestTimeout THEN {TRUE}
    ELSE IF resp >= 500 /\ resp <= 599 THEN {TRUE}
    ELSE {FALSE}

\* Backoff.ForAttempt: the jitter factor can bring a delay down to 0, which
\* sleep does not wait for; only whether the delay is positive matters.
ForAttempt(attempt) == {0, 1}

\* What one httpClient.Do produces: a response, or an error without one.
TransportOutcomes == [resp : Statuses, err : {"nil"}] \cup [resp : {0}, err : TransportErrors]

\* The caller's context once the request is over: it can end while the
\* request is in flight, and the transport reports context.Canceled only
\* then; a deadline error also comes from the http.Client's own Timeout.
contextAfter(out) == IF out.err = Canceled THEN {"canceled"} ELSE DoContexts

Requests == [Method : {"", "GET"}, DisableRetry : BOOLEAN]

doFrame == UNCHANGED <<now, items, hashes, last, trav, files, fileNames, yamlDocs, fsLast>>

\* return resp, err
doReturn(p, call, resp, err) ==
    /\ loc' = [loc EXCEPT ![p].call = [call EXCEPT !.resp = resp, !.err = err,
                                                  !.returned = TRUE]]
    /\ pc' = [pc EXCEPT ![p] = "idle"]

\* After a failed attempt: return the error, or count the attempt and sleep.
\* On an error return resp keeps the status the HTTPError carries.
doFailed(p, call, resp, err) ==
    \E retry \in shouldRetry(call, resp, err) :
       IF ~retry THEN doReturn(p, call, resp, err)
       ELSE \E delay \in ForAttempt(call.attempt) :
               /\ loc' = [loc EXCEPT ![p].call = [call EXCEPT !.attempt = @ + 1,
                                                             !.resp = resp, !.err = err]]
               /\ pc' = [pc EXCEPT ![p] = IF delay <= 0 THEN "do_loop" ELSE "do_sleep"]

\* Client.Do up to the loop: the request is checked, attempt starts at 0.
DoBegin(p, policy, req, ctx) ==
    /\ Idle(p)
    /\ doFrame
    /\ \E call \in {[NoRequest EXCEPT !.retryPolicy = NewClient(policy),
                                      !.DisableRetry = req.DisableRetry,
                                      !.Method = req.Method, !.ctx = ctx]} :
          IF req.Method = "" THEN
             /\ loc' = [loc EXCEPT ![p].call =
                          [call EXCEPT !.err = "httpx: HTTP method is required",
                                       !.returned = TRUE]]
             /\ UNCHANGED pc
          ELSE
             /\ loc' = [loc EXCEPT ![p].call = call]
             /\ pc' = [pc EXCEPT ![p] = "do_loop"]

\* One turn of the loop: the context is looked at, then the request is sent
\* and its outcome handled.
doAttempt(p) ==
    /\ Running /\ pc[p] = "do_loop"
    /\ doFrame
    /\ IF doneErr(loc[p].call.ctx) # "nil" THEN
          doReturn(p, loc[p].call, 0, doneErr(loc[p].call.ctx))
       ELSE
          \E out \in TransportOutcomes :
          \E ctx \in contextAfter(out) :
          \E call \in {[loc[p].call EXCEPT !.sent = @ + 1, !.ctx = ctx,
                                          !.ctxErrSeen = @ \/ isContextError(out.err)]} :
             IF out.err # "nil" THEN doFailed(p, call, 0, out.err)
             ELSE IF out.resp >= 400 THEN doFailed(p, call, out.resp, handleError(out.resp))
             ELSE doReturn(p, call, out.resp, "nil")

\* Client.sleep with a positive delay: the timer fires ...
sleepElapsed(p) ==
    /\ Running /\ pc[p] = "do_sleep"
    /\ doFrame
    /\ pc' = [pc EXCEPT ![p] = "do_loop"]
    /\ UNCHANGED loc

\* ... or the context is done first, and Do returns ctx.Err().
sleepInterrupted(p) ==
    /\ Running /\ pc[p] = "do_sleep"
    /\ doneErr(loc[p].call.ctx) # "nil"
    /\ doFrame
    /\ doReturn(p, loc[p].call, 0, doneErr(loc[p].call.ctx))

\* The caller cancels the context of a call under way, or its deadline passes.
contextDone(p) ==
    /\ pc[p] \in {"do_loop", "do_sleep"}
    /\ loc[p].call.ctx = "live"
    /\ doFrame
    /\ \E ctx \in {"canceled", "deadline"} : loc' = [loc EXCEPT ![p].call.ctx = ctx]
    /\ UNCHANGED pc

\* The retry specification: one caller of a Client built with any policy,
\* against a server and a transport that answer every attempt as they like.
NextDo ==
    \/ \E policy \in RetryPolicies, req \in Requests, ctx \in DoContexts :
          DoBegin("g1", policy, req, ctx)
    \/ doAttempt("g1")
    \/ sleepElapsed("g1")
    \/ sleepInterrupted("g1")
    \/ contextDone("g1")

SpecDo == Init /\ [][NextDo]_vars

\* The same with every attempt answered and every timer firing in the end.
SpecDoFair == SpecDo /\ WF_vars(doAttempt("g1")) /\ WF_vars(sleepElapsed("g1"))

\* The frame specification: every value-store operation on two keys written
\* with and without a TTL, key a also conditionally, next to a hash field of
\* the same name, while the clock advances.
FrameOptions == [TTLSeconds : TTLChoices, IfETagMatch : {"", "e1"}, IfAbsent : BOOLEAN]

NextFrame ==
    \/ Tick
    \/ \E key \in Keys : getItem(Background, key)
    \/ \E opts \in FrameOptions, etag \in ETags :
          putItem(Background, <<"a">>, "v1", opts, etag)
    \/ \E opts \in ListOptions : putItem(Background, <<"b">>, "v1", opts, "e1")
    \/ \E key \in Keys : Delete(Background, key)
    \/ \E prefix \in {<< >>, <<"b">>}, cursor \in {<< >>, <<"a">>} :
          List(Background, prefix, cursor, 0)
    \/ getHashItem(Background, <<"h">>, <<"a">>)
    \/ putHashItem(Background, <<"h">>, <<"a">>, "v1", NilOptions, "e1")
    \/ listHashItems(Background, <<"h">>)

SpecFrame == Init /\ [][NextFrame]_vars

\* The file-name specification: files uploaded to nested and top-level
\* paths or added under generated identifiers, and their metadata resolved
\* by path or identifier.
NextName ==
    \E p \in Procs :
       \/ \E path \in ListPaths : fsUpload(p, Background, path, "d1", "")
       \/ \E filename \in MoreFileNames, cid \in MoreCIDs :
             fsAddFile(p, Background, filename, "d1", "", cid)
       \/ \E cid \in ListPaths \cup MoreCIDs : fsGetFile(p, Background, cid, "")
       \/ \E path \in ListPaths \cup MoreCIDs : fsDelete(p, Background, path)

SpecName == Init /\ [][NextName]_vars

\* ========================================================== the properties
\* The reading of "live" used by the conditional-write and lookup
\* properties: the entry is in the map and its expiry, if it has one, has
\* not been passed by the clock.
TTLPassed(e, t) == e.expiresAt # ZeroTime /\ t > e.expiresAt
LiveAt(m, k, t) == k \in DOMAIN m /\ ~TTLPassed(m[k], t)
LiveView(m, t) == [k \in {x \in DOMAIN m : ~TTLPassed(m[x], t)} |-> m[k]]

\* The step is a call of the named operation: every call leaves its record
\* in last and no call moves the clock.
Called(op) == now' = now /\ last'.op = op

\* C1: an entry written with a positive ttlSeconds = t at clock time w is
\* returned by get at every clock time strictly before w + t and is absent
\* at every clock time at or after w + t, w + t itself included.
C1_TTLExpiry ==
    [][\A k \in Keys :
          /\ (/\ Called("put") /\ last'.key = k /\ last'.err = "nil"
              /\ last'.opts.TTLSeconds # << >> /\ last'.opts.TTLSeconds[1] > 0)
             => /\ k \in DOMAIN items'
                /\ items'[k].expiresAt = now + last'.opts.TTLSeconds[1]
          /\ (/\ Called("get") /\ last'.key = k
              /\ k \in DOMAIN items /\ items[k].expiresAt # ZeroTime)
             => (last'.item # << >> <=> now < items[k].expiresAt)]_vars

\* C2: set(k, v, {ifAbsent}) succeeds exactly when no live entry is stored
\* under k at the time of the call (k absent, or holding only an expired
\* entry), and otherwise fails with PreconditionFailed.
C2_IfAbsent ==
    [][\A k \in Keys :
          (/\ Called("put") /\ last'.key = k
           /\ last'.opts.IfAbsent /\ last'.opts.IfETagMatch = "")
          => /\ last'.err = "nil" <=> ~LiveAt(items, k, now)
             /\ last'.err # "nil" => last'.err = "ErrPreconditionFailed"]_vars

C2_Witness ==
    /\ last.op = "put" /\ last.opts.IfAbsent /\ last.opts.IfETagMatch = ""
    /\ last.found = "stale" /\ last.err = "nil"

\* C3: set(k, v, {ifETagMatch: tag}) succeeds exactly when a live entry is
\* stored under k and its etag equals tag; it fails with PreconditionFailed
\* when k is absent, expired, or carries another etag.
C3_IfETagMatch ==
    [][\A k \in Keys :
          (/\ Called("put") /\ last'.key = k
           /\ last'.opts.IfETagMatch # "" /\ ~last'.opts.IfAbsent)
          => /\ last'.err = "nil" <=>
                   (LiveAt(items, k, now) /\ items[k].etag = last'.opts.IfETagMatch)
             /\ last'.err # "nil" => last'.err = "ErrPreconditionFailed"]_vars

C3_Witness ==
    /\ last.op = "put" /\ last.opts.IfETagMatch # "" /\ ~last.opts.IfAbsent
    /\ last.found = "live" /\ last.err = "nil"

\* C4: a set that fails with PreconditionFailed changes nothing a later get
\* or list can see: every live entry keeps its value, etag and expiry.
C4_FailedSetFrame ==
    [][(Called("put") /\ last'.err = "ErrPreconditionFailed")
          => LiveView(items', now') = LiveView(items, now)]_vars

C4_Witness ==
    /\ last.op = "put" /\ last.err = "ErrPreconditionFailed"
    /\ last.opts.IfAbsent /\ last.found = "live"
    /\ last.key \in DOMAIN items /\ items[last.key].expiresAt # ZeroTime

\* C8: get reports not-found when the key is absent or its entry's expiry
\* has passed, in the latter case removing the entry within the same call,
\* and never returns an entry whose expiry has passed.
C8_GetLazyExpiry ==
    [][\A k \in Keys :
          (Called("get") /\ last'.key = k)
          => /\ k \notin DOMAIN items => last'.item = << >>
             /\ (k \in DOMAIN items /\ TTLPassed(items[k], now))
                => (last'.item = << >> /\ k \notin DOMAIN items')
             /\ last'.item # << >>
                => /\ k \in DOMAIN items
                   /\ ~TTLPassed(items[k], now)
                   /\ last'.item[1] = ItemOf(k, items[k])]_vars

C8_Witness ==
    /\ last.op = "get" /\ last.found = "stale" /\ last.item = << >>
    /\ last.key \notin DOMAIN items

\* The keys a traversal has to deliver: the live keys under the prefix.
Matching(prefix) ==
    {k \in DOMAIN items : ~TTLPassed(items[k], now)
                          /\ (prefix = << >> \/ HasPrefix(k, prefix))}

StrictlyIncreasing(seq) ==
    \A i \in 1 .. (Len(seq) - 1) : StrLess(seq[i], seq[i + 1])

Range(seq) == {seq[i] : i \in 1 .. Len(seq)}

\* C5: over an unmodified store, the pages obtained from the empty cursor
\* by following nextCursor concatenate to exactly the sorted live keys
\* under the prefix, without duplicate or omission; every page that does
\* not end the traversal moves the cursor to a larger key, so the traversal
\* ends with an empty nextCursor after finitely many pages.
C5_Pagination ==
    trav.active =>
       /\ StrictlyIncreasing(trav.acc)
       /\ Range(trav.acc) \subseteq Matching(trav.prefix)
       /\ ~trav.done =>
             /\ trav.acc # << >>
             /\ trav.cursor = trav.acc[Len(trav.acc)]
             /\ \E k \in Matching(trav.prefix) : StrLess(trav.cursor, k)
       /\ trav.done =>
             /\ trav.cursor = << >>
             /\ Range(trav.acc) = Matching(trav.prefix)

C5_Witness ==
    /\ trav.active /\ trav.done /\ trav.limit = 1
    /\ trav.prefix = <<"a">> /\ Len(trav.acc) = 2
    /\ \E k \in DOMAIN items : ~HasPrefix(k, trav.prefix)

\* C6: every operation of the value store and of the file store takes
\* effect atomically: between an operation's first access to the store and
\* its last, no other operation changes the store.  A goroutine that stands
\* inside a call while another goroutine takes the step must find the store
\* as it left it.
C6_AtomicOperations ==
    [][\A p \in Procs :
          (pc[p] \notin {"idle", "panicked"} /\ pc'[p] = pc[p] /\ loc'[p] = loc[p])
          => /\ files' = files
             /\ fileNames' = fileNames
             /\ yamlDocs' = yamlDocs]_vars

\* C7: no empty buckets persist: whatever hash-store calls are made and
\* however the clock advances, no hash key of the store holds a bucket
\* with zero fields.
C7_NoEmptyBuckets ==
    \A h \in DOMAIN hashes : DOMAIN hashes[h] # {}

\* The matching keys that a page (the keys of its items, in order) leaves
\* unreturned in store m at time t.
Remaining(m, t, prefix, cursor, pageKeys) ==
    {k \in DOMAIN m :
        /\ ~TTLPassed(m[k], t)
        /\ (prefix = << >> \/ HasPrefix(k, prefix))
        /\ IF pageKeys # << >>
           THEN StrLess(pageKeys[Len(pageKeys)], k)
           ELSE cursor = << >> \/ StrLess(cursor, k)}

\* C10: for every list call nextCursor is the last key of the returned page
\* when matching keys remain after the page, and is the empty string
\* exactly when the page reached the end of the filtered, sorted keys.
C10_NextCursor ==
    [][Called("list") =>
          LET pageKeys == PageKeys(last'.page)
          IN /\ last'.nextCursor = << >> <=>
                   Remaining(items, now, last'.prefix, last'.cursor, pageKeys) = {}
             /\ last'.nextCursor # << >> =>
                   /\ pageKeys # << >>
                   /\ last'.nextCursor = pageKeys[Len(pageKeys)]]_vars

C10_Witness ==
    /\ last.op = "list" /\ last.prefix = <<"a">> /\ last.limit = 1
    /\ last.cursor = << >> /\ Len(last.page) = 1
    /\ last.nextCursor = <<"a">>
    /\ <<"b">> \in DOMAIN items

\* The live keys under the prefix that lie strictly after the cursor in
\* store m at time t.
AfterCursor(m, t, prefix, cursor) ==
    {k \in DOMAIN m :
        /\ ~TTLPassed(m[k], t)
        /\ (prefix = << >> \/ HasPrefix(k, prefix))
        /\ StrLess(cursor, k)}

\* C11: for every non-empty cursor c, key of the store or not, list
\* returns, in increasing order, the smallest `limit` live matching keys
\* strictly greater than c, and all of them when limit is zero or negative;
\* no key <= c is returned.
C11_CursorExclusive ==
    [][(Called("list") /\ last'.cursor # << >>) =>
          LET pageKeys == PageKeys(last'.page)
              after == AfterCursor(items, now, last'.prefix, last'.cursor)
          IN /\ StrictlyIncreasing(pageKeys)
             /\ Range(pageKeys) \subseteq after
             /\ Len(pageKeys) = IF last'.limit > 0
                                THEN Min(last'.limit, Cardinality(after))
                                ELSE Cardinality(after)
             /\ \A k \in after \ Range(pageKeys) :
                   \A j \in Range(pageKeys) : StrLess(j, k)]_vars

C11_Witness ==
    /\ last.op = "list" /\ last.cursor = <<"a", "0">> /\ last.limit = 1
    /\ last.prefix = << >>
    /\ PageKeys(last.page) = << <<"a", "1">> >>
    /\ {<<"a">>, <<"a", "1">>, <<"b">>} \subseteq DOMAIN items

\* C12: a seed load that fails (an entry without its key or path, or a
\* payload that does not decode) applies none of its entries: the value
\* store after a failed KV seed, and the file store after a failed file
\* seed, equal what they were before the load.
C12_SeedAllOrNothing ==
    [][/\ (Called("seed") /\ last'.err # "nil") => items' = items
       /\ (fsLast'.op = "seed" /\ fsLast'.err # "nil")
          => (files' = files /\ fileNames' = fileNames)]_vars

\* (hashKey, field) holds a live entry in hash store m at time t.
LiveField(m, h, f, t) == h \in DOMAIN m /\ LiveAt(m[h], f, t)

\* C14: the conditional options of hset are judged on the one field
\* (hashKey, field): with ifAbsent the write succeeds iff that field has no
\* live entry, with ifETagMatch iff it has a live entry with exactly that
\* etag, whatever the other fields of the bucket, the same field name under
\* another hash key and the value-store keys hold; a refused write fails
\* with PreconditionFailed.
C14_HashConditional ==
    [][\A h \in HashKeys \cup {OtherHashKey}, f \in Fields :
          (Called("hset") /\ last'.key = h /\ last'.field = f)
          => /\ last'.err = "nil" <=>
                   /\ last'.opts.IfAbsent => ~LiveField(hashes, h, f, now)
                   /\ last'.opts.IfETagMatch # "" =>
                         /\ LiveField(hashes, h, f, now)
                         /\ hashes[h][f].etag = last'.opts.IfETagMatch
             /\ last'.err # "nil" => last'.err = "ErrPreconditionFailed"]_vars

C14_Witness ==
    /\ last.op = "hset" /\ last.key = <<"h">> /\ last.field = <<"a">>
    /\ last.opts.IfAbsent /\ last.opts.IfETagMatch = ""
    /\ last.err = "nil" /\ last.found = "stale"
    /\ <<"h">> \in DOMAIN hashes /\ <<"b">> \in DOMAIN hashes[<<"h">>]
    /\ hashes[<<"h">>][<<"b">>].expiresAt = ZeroTime
    /\ OtherHashKey \in DOMAIN hashes /\ <<"a">> \in DOMAIN hashes[OtherHashKey]
    /\ <<"a">> \in DOMAIN items

\* The live fields of bucket h in hash store m at time t.
LiveFields(m, h, t) ==
    IF h \in DOMAIN m THEN {f \in DOMAIN m[h] : ~TTLPassed(m[h][f], t)} ELSE {}

\* C15: hgetAll(hashKey) returns exactly the live fields of the bucket, each
\* with its stored value, etag and expiry, in increasing order of field
\* name; when the bucket does not exist or none of its fields is live it
\* reports absent (nil) and leaves no bucket under the hash key.
C15_HGetAll ==
    [][\A h \in HashKeys :
          (Called("hgetall") /\ last'.key = h /\ last'.err = "nil")
          => LET live == LiveFields(hashes, h, now)
                 page == last'.page
             IN /\ StrictlyIncreasing([i \in 1 .. Len(page) |-> page[i].Field])
                /\ {page[i].Field : i \in 1 .. Len(page)} = live
                /\ \A i \in 1 .. Len(page) :
                      page[i] = [HashKey |-> h, Field |-> page[i].Field,
                                 Value |-> hashes[h][page[i].Field].data,
                                 ETag |-> hashes[h][page[i].Field].etag,
                                 ExpiresAt |->
                                    IF hashes[h][page[i].Field].expiresAt # ZeroTime
                                    THEN <<hashes[h][page[i].Field].expiresAt>>
                                    ELSE << >>]
                /\ last'.nilResult <=> live = {}
                /\ live = {} => h \notin DOMAIN hashes']_vars

C15_Witness ==
    /\ last.op = "hgetall" /\ last.key = <<"h">> /\ last.err = "nil"
    /\ last.found = "stale" /\ last.nilResult
    /\ <<"h">> \notin DOMAIN hashes

\* The step is the return of a file-store call of the named operation.
FsReturns(op) == fsLast'.op = op /\ fsLast' # fsLast

\* A non-empty path written with its leading slash.
WithSlash(path) == IF path[1] = "/" THEN path ELSE <<"/">> \o path

\* C16: after addFile(filename, ...) has returned cid, getFileMetadata(cid,
\* secret) reports that filename, for every secret and for as long as the
\* file stays stored: the name kept for a cid is the one given to the
\* addFile that returned it, only such an addFile replaces it, and getFile
\* succeeds exactly while a file is stored under the identifier.
C16_FilenameByCid ==
    [][\A cid \in MoreCIDs :
          /\ (FsReturns("addFile") /\ fsLast'.err = "nil" /\ fsLast'.cid = cid)
             => /\ WithSlash(cid) \in DOMAIN files'
                /\ cid \in DOMAIN fileNames'
                /\ fileNames'[cid] = fsLast'.filename
          /\ (/\ cid \in DOMAIN fileNames
              /\ ~(FsReturns("addFile") /\ fsLast'.err = "nil" /\ fsLast'.cid = cid))
             => /\ cid \in DOMAIN fileNames'
                /\ fileNames'[cid] = fileNames[cid]
          /\ (FsReturns("getFile") /\ fsLast'.cid = cid)
             => /\ fsLast'.err = "nil" <=> WithSlash(cid) \in DOMAIN files
                /\ fsLast'.err # "nil" => fsLast'.err = "ErrNotFound"
                /\ (fsLast'.err = "nil" /\ cid \in DOMAIN fileNames)
                   => fsLast'.filename = fileNames[cid]]_vars

C16_Witness ==
    /\ fsLast.op = "getFile" /\ fsLast.err = "nil" /\ fsLast.cid = <<"c">>
    /\ fsLast.secret = "s" /\ fsLast.filename = <<"n">>
    /\ "r1fs.secret" \notin DOMAIN files[<<"/", "c">>].metadata
    /\ <<"d">> \in DOMAIN fileNames /\ fileNames[<<"d">>] = <<"m">>

\* C19: upload to a non-empty path always succeeds and replaces whatever is
\* stored at the path written with its leading slash, touching no other
\* path; download of the path, written with or without the leading slash,
\* returns the bytes stored there, which only an upload to that path
\* changes: the bytes of the most recent upload.
C19_UploadOverwrites ==
    [][\A path \in FsPaths :
          /\ (FsReturns("upload") /\ fsLast'.path = path)
             => /\ fsLast'.err = "nil"
                /\ WithSlash(path) \in DOMAIN files'
                /\ files'[WithSlash(path)].data = fsLast'.data
                /\ \A x \in DOMAIN files \ {WithSlash(path)} :
                      x \in DOMAIN files' /\ files'[x] = files[x]
          /\ (FsReturns("download") /\ fsLast'.path = path)
             => IF WithSlash(path) \in DOMAIN files
                THEN fsLast'.err = "nil" /\ fsLast'.data = files[WithSlash(path)].data
                ELSE fsLast'.err = "ErrNotFound"
          /\ (/\ WithSlash(path) \in DOMAIN files /\ WithSlash(path) \in DOMAIN files'
              /\ files'[WithSlash(path)].data # files[WithSlash(path)].data)
             => /\ FsReturns("upload")
                /\ WithSlash(fsLast'.path) = WithSlash(path)]_vars

C19_Witness ==
    /\ fsLast.op = "upload" /\ fsLast.err = "nil" /\ fsLast.path = <<"a">>
    /\ fsLast.replaced /\ fsLast.data = "d2"
    /\ files[<<"/", "a">>].data = "d2"
    /\ DOMAIN files = {<<"/", "a">>, <<"/", "c">>}

\* The JSON text of a string, and the JSON object holding raw under the
\* field name file_data.
Quoted(text) == "\"" \o text \o "\""
FileDataOf(raw) == "{\"file_data\":" \o raw \o "}"

\* C17: getDocument(cid) never signals an error for a non-empty cid: for a
\* cid that no addDocument has returned its payload is the JSON string
\* "error", and it is the object holding the stored bytes under file_data
\* if and only if an earlier addDocument returned cid; the index of known
\* cids grows by exactly the cid of each returning addDocument.
C17_GetDocumentSentinel ==
    [][/\ DOMAIN yamlDocs' =
             DOMAIN yamlDocs \cup
                (IF FsReturns("addYAML") /\ fsLast'.err = "nil" THEN {fsLast'.cid} ELSE {})
       /\ \A cid \in MoreCIDs :
             (FsReturns("getYAML") /\ fsLast'.cid = cid)
             => /\ fsLast'.err = "nil"
                /\ IF cid \in DOMAIN yamlDocs
                   THEN /\ fsLast'.data = FileDataOf(yamlDocs[cid])
                        /\ fsLast'.data # Quoted("error")
                   ELSE fsLast'.data = Quoted("error")]_vars

C17_Witness ==
    /\ fsLast.op = "getYAML" /\ fsLast.err = "nil" /\ fsLast.cid = <<"d">>
    /\ fsLast.data = Quoted("error")
    /\ <<"/", "d">> \in DOMAIN files /\ <<"d">> \in DOMAIN fileNames
    /\ <<"c">> \in DOMAIN yamlDocs

DirPrefix(dir) ==
    IF dir = << >> \/ dir = <<"/">> THEN <<"/">>
    ELSE IF WithSlash(dir)[Len(WithSlash(dir))] = "/" THEN WithSlash(dir)
    ELSE WithSlash(dir) \o <<"/">>

\* The stored paths under the directory that lie after the cursor.
PathsAfter(fs, dir, cursor) ==
    {x \in DOMAIN fs : HasPrefix(x, DirPrefix(dir))
                        /\ (cursor = << >> \/ StrLess(cursor, x))}

ArgumentErrors ==
    {"key is required", "hash key is required", "hash field is required",
     "path is required", "cid is required", "filename is required",
     "yaml data is required"}

\* C13: every store operation called with well-formed arguments and a
\* cancellation signal that is already set when the call begins returns the
\* Cancelled error and leaves the store as it was: no write, no delete, no
\* removal of expired entries.
C13_CancelledAtStart ==
    [][/\ (/\ now' = now /\ last'.op # "none" /\ last'.ctx = "canceled"
           /\ last'.err \notin ArgumentErrors)
          => /\ last'.err = "context canceled"
             /\ items' = items
             /\ hashes' = hashes
       /\ (/\ fsLast'.op # "none" /\ fsLast'.ctx = "canceled"
           /\ fsLast'.err \notin ArgumentErrors)
          => /\ fsLast'.err = "context canceled"
             /\ files' = files
             /\ fileNames' = fileNames
             /\ yamlDocs' = yamlDocs]_vars

\* C26: whichever backend the client holds, no facade call comes back
\* rejected as unsupported: the in-memory backend carries out every
\* operation, so a call sequence is valid against both backends only if the
\* HTTP backend rejects none of them either.
C26_BackendAgnostic ==
    [][\A backend \in {"mock", "http"} :
          (fsLast' # fsLast /\ fsLast'.backend = backend)
          => fsLast'.err # "ErrUnsupportedFeature"]_vars

\* Both clients have written after reading the same etag.
BothWrote ==
    /\ \A p \in Procs : pc[p] = "written"
    /\ \A p, q \in Procs : loc[p].etag = loc[q].etag

\* One client's write succeeded and every other client's failed with
\* PreconditionFailed.
ExactlyOneWrote ==
    \E p \in Procs :
       /\ loc[p].result = "nil"
       /\ \A q \in Procs \ {p} : loc[q].result = "ErrPreconditionFailed"

\* C27 as stated: when two clients have read the same live entry and each
\* has issued set(k, v, {ifETagMatch: etag}), exactly one of the two writes
\* has succeeded and the other has failed with PreconditionFailed.
C27_LostUpdate == BothWrote => ExactlyOneWrote

\* C27 as amended: of two such writes never both succeed; exactly one
\* succeeds and the other fails with PreconditionFailed if the entry is
\* still live when the first of them runs, and both fail with
\* PreconditionFailed if its TTL has passed by then.
C27_ExactlyOneWhileLive ==
    BothWrote
    => /\ ~(\A p \in Procs : loc[p].result = "nil")
       /\ IF \E p \in Procs : loc[p].found = "live"
          THEN ExactlyOneWrote
          ELSE \A p \in Procs : loc[p].result = "ErrPreconditionFailed"

\* The client that read second wrote first and won.
C27_Witness ==
    /\ BothWrote
    /\ loc["g1"].result = "ErrPreconditionFailed" /\ loc["g1"].found = "live"
    /\ loc["g2"].result = "nil"
    /\ loc["g1"].etag = "e2"
    /\ items[<<"a">>].etag = "e1" /\ items[<<"a">>].data = "v2"

\* The options a write carries ask for a TTL or for a condition.
AsksForMore(opts) == opts.TTLSeconds # << >> \/ opts.IfAbsent \/ opts.IfETagMatch # ""

C24_EntryFrame ==
    [][/\ \A k \in DOMAIN items :
             /\ k \notin DOMAIN items'
                => \/ Called("delete") /\ last'.key = k /\ last'.err = "nil"
                   \/ now' = now /\ TTLPassed(items[k], now)
             /\ (k \in DOMAIN items' /\ items'[k] # items[k])
                => Called("put") /\ last'.key = k /\ last'.err = "nil"
       /\ (\E op \in {"hget", "hset", "hgetall"} : Called(op)) => items' = items
       /\ (\E op \in {"get", "put", "delete", "list"} : Called(op)) => hashes' = hashes]_vars

\* A list call that dropped the expired entry under a and left the live
\* entry with a TTL under b in place.
C24_Witness ==
    /\ last.op = "list" /\ last.prefix = <<"b">> /\ last.found = "stale"
    /\ DOMAIN items = {<<"b">>}
    /\ items[<<"b">>].expiresAt = now
    /\ Len(last.page) = 1
    /\ <<"h">> \in DOMAIN hashes

\* C29: when a value-store list call returns, the store is the store of
\* the time of the call without the entries whose expiry had passed, under
\* any key, inside or outside the prefix, before or after the cursor; every
\* key of the returned page had a live entry, and the page shows it.
C29_ListSweepsAll ==
    [][(Called("list") /\ last'.err = "nil")
       => /\ items' = LiveView(items, now)
          /\ \A k \in DOMAIN items' : ~TTLPassed(items'[k], now)
          /\ \A i \in 1 .. Len(last'.page) :
                /\ LiveAt(items, last'.page[i].Key, now)
                /\ last'.page[i].ETag = items[last'.page[i].Key].etag]_vars

\* A list under prefix b after cursor a that dropped the expired entry
\* under a.
C29_Witness ==
    /\ last.op = "list" /\ last.err = "nil" /\ last.found = "stale"
    /\ last.prefix = <<"b">> /\ last.cursor = <<"a">>
    /\ <<"a">> \notin DOMAIN items
    /\ Len(last.page) = 1 /\ last.page[1].Key = <<"b">>

\* The part of a path after its last "/".
TrailingSegment(path) ==
    LET slashes == {i \in 1 .. Len(path) : path[i] = "/"}
    IN IF slashes = {} THEN path
       ELSE SubSeq(path, (CHOOSE i \in slashes : \A j \in slashes : j <= i) + 1, Len(path))

\* C23: getFileMetadata(cid) on a stored entry for which no display name is
\* recorded reports as filename the part of the entry's path after its last
\* "/" (b for /a/b).
C23_FilenameFallback ==
    [][\A cid \in ListPaths \cup MoreCIDs :
          (/\ FsReturns("getFile") /\ fsLast'.cid = cid /\ fsLast'.err = "nil"
           /\ cid \notin DOMAIN fileNames)
          => fsLast'.filename = TrailingSegment(WithSlash(cid))]_vars

\* C21: download(path) of a non-empty path fails with NotFound exactly when
\* no entry is stored at the path written with its leading slash, and
\* otherwise returns the stored bytes; an entry leaves the file table only
\* through a successful delete of its own path, and never because the clock
\* has advanced.
C21_DownloadNotFound ==
    [][/\ \A path \in StoredPaths \cup CIDs :
             (FsReturns("download") /\ fsLast'.path = path)
             => IF WithSlash(path) \in DOMAIN files
                THEN fsLast'.err = "nil" /\ fsLast'.data = files[WithSlash(path)].data
                ELSE fsLast'.err = "ErrNotFound"
       /\ \A x \in DOMAIN files :
             x \notin DOMAIN files'
             => /\ FsReturns("delete") /\ fsLast'.err = "nil"
                /\ fsLast'.path # << >> /\ WithSlash(fsLast'.path) = x
       /\ now' # now => files' = files]_vars

C21_Witness ==
    /\ fsLast.op = "download" /\ fsLast.err = "nil" /\ fsLast.path = <<"a">>
    /\ fsLast.data = "d1"
    /\ <<"/", "a">> \in DOMAIN files
    /\ files[<<"/", "a">>].modTime = 1
    /\ fsLast.at >= 3

\* C22: delete(path) of a non-empty path fails with NotFound and changes
\* nothing if no entry is stored at the path, and otherwise succeeds and
\* removes exactly that entry; while a path holds no entry, download, stat
\* and delete of it fail with NotFound, and only an upload or addFile that
\* writes the path makes it stored again.
C22_DeleteNotFound ==
    [][\A path \in StoredPaths \cup CIDs :
          /\ (FsReturns("delete") /\ fsLast'.path = path)
             => IF WithSlash(path) \in DOMAIN files
                THEN /\ fsLast'.err = "nil"
                     /\ files' = [x \in DOMAIN files \ {WithSlash(path)} |-> files[x]]
                ELSE /\ fsLast'.err = "ErrNotFound"
                     /\ files' = files
          /\ (/\ WithSlash(path) \notin DOMAIN files
              /\ fsLast'.path = path
              /\ FsReturns("download") \/ FsReturns("stat") \/ FsReturns("delete"))
             => fsLast'.err = "ErrNotFound"
          /\ (WithSlash(path) \notin DOMAIN files /\ WithSlash(path) \in DOMAIN files')
             => /\ FsReturns("upload") \/ FsReturns("addFile")
                /\ fsLast'.err = "nil"
                /\ WithSlash(fsLast'.path) = WithSlash(path)]_vars

C22_Witness ==
    /\ fsLast.op = "delete" /\ fsLast.err = "nil" /\ fsLast.path = <<"a">>
    /\ DOMAIN files = {<<"/", "b">>, <<"/", "c">>}
    /\ fsLast.at >= 2

\* C28: a traversal that follows nextCursor while other callers insert,
\* overwrite, delete or let expire keys between its pages is never handed
\* the same key twice, is handed its keys in strictly increasing order across
\* pages, and, once nextCursor comes back empty, has been handed every key
\* under the prefix that was live throughout the traversal; while it is
\* still paging it has been handed every such key up to its cursor.
NoKeyTwice(seq) == \A i, j \in 1 .. Len(seq) : i # j => seq[i] # seq[j]

C28_StatelessCursor ==
    \A p \in Procs :
       pc[p] \in {"paging", "traversed"} =>
          /\ NoKeyTwice(loc[p].acc)
          /\ StrictlyIncreasing(loc[p].acc)
          /\ pc[p] = "traversed" => loc[p].steady \subseteq Range(loc[p].acc)
          /\ pc[p] = "paging" =>
                \A k \in loc[p].steady :
                   (k = loc[p].cursor \/ StrLess(k, loc[p].cursor)) => k \in Range(loc[p].acc)

\* A traversal of several pages has ended; it was handed a key that has
\* since gone, it missed a key that is live now, and a key that stayed live
\* all along is among those it was handed.
C28_Witness ==
    /\ pc["g1"] = "traversed" /\ loc["g1"].prefix = << >> /\ loc["g1"].limit = 1
    /\ Len(loc["g1"].acc) >= 2
    /\ loc["g1"].steady # {}
    /\ \E k \in Range(loc["g1"].acc) : k \notin DOMAIN items
    /\ \E k \in DOMAIN items : ~TTLPassed(items[k], now) /\ k \notin Range(loc["g1"].acc)
\* C30: no store map is mutated while only the shared lock or no lock is
\* held: a step that changes the value map or the hash map is taken by a
\* goroutine that holds the value store's exclusive lock, lazy-expiry
\* deletions of get, list, hget and hgetAll included, and a step that changes
\* the file table, the filename index or the document index is taken by a
\* goroutine that holds the file store's exclusive lock.
C30_MutateUnderLock ==
    [][((items' # items \/ hashes' # hashes) =>
           (\E p \in Procs : loc[p].mu = "cstore.Lock" /\ loc'[p].mu = ""))
       /\ ((files' # files \/ fileNames' # fileNames \/ yamlDocs' # yamlDocs) =>
              (\E q \in Procs : loc[q].mu = "r1fs.Lock" /\ loc'[q].mu = ""))]_vars

\* A get has just dropped a stale entry under the exclusive lock and given
\* the lock back, and another goroutine has taken it since.
C30_Witness ==
    /\ last.op = "get" /\ last.found = "stale" /\ last.key \notin DOMAIN items
    /\ \E p \in Procs : loc[p].mu = "cstore.Lock" /\ loc[p].op # "get"

\* C31: a set or a seed entry with ttlSeconds unset, zero or negative
\* installs an entry that never expires, also in place of an entry that
\* carried a TTL: the entry it leaves carries no expiry, an entry without
\* expiry stays as it is through every clock step and every call that does
\* not write or delete its key, and get returns it at any clock time.
NoTTLAsked(opts) == opts.TTLSeconds = << >> \/ opts.TTLSeconds[1] <= 0
Forever(m, k) == k \in DOMAIN m /\ m[k].expiresAt = ZeroTime

C31_NeverExpires ==
    [][\A k \in Keys :
          /\ (Called("put") /\ last'.key = k /\ last'.err = "nil" /\ NoTTLAsked(last'.opts))
                => Forever(items', k)
          /\ (Called("seed") /\ last'.err = "nil" /\ k = <<"a">>) => Forever(items', k)
          /\ (Forever(items, k)
              /\ ~(last'.op \in {"put", "delete"} /\ last'.key = k /\ now' = now)
              /\ ~(Called("seed") /\ k = <<"a">>))
                => k \in DOMAIN items' /\ items'[k] = items[k]
          /\ (Called("get") /\ last'.key = k /\ Forever(items, k))
                => /\ last'.err = "nil"
                   /\ last'.item = <<[Key |-> k, Value |-> items[k].data,
                                      ETag |-> items[k].etag, ExpiresAt |-> << >>]>>]_vars

\* At the last clock time a get returns, without expiry, an entry that a
\* set installed.
C31_Witness ==
    /\ now = MaxTime /\ now > 2
    /\ last.op = "get" /\ last.key = <<"a">> /\ last.found = "live"
    /\ last.item[1].ExpiresAt = << >> /\ last.item[1].Value = "v1"

\* C32: Delete(k) of the value store returns NotFound exactly when k has no
\* live entry, an expired entry that has not been swept counting as absent;
\* otherwise it removes the entry, so that the next get(k) reports absent.
C32_DeleteLiveOnly ==
    [][\A k \in Keys :
          (Called("delete") /\ last'.key = k)
          => /\ last'.err = "ErrNotFound" <=> ~LiveAt(items, k, now)
             /\ last'.err # "ErrNotFound" => (last'.err = "nil" /\ k \notin DOMAIN items')]_vars

\* C33: a file-store list that runs concurrently with a delete of a path
\* under the listed directory completes without fault in every interleaving,
\* and every file it returns is in the store at a moment during the call.
C33_ListBesideDelete ==
    [][FsReturns("list")
          => /\ fsLast'.err \in {"nil", "context canceled"}
             /\ \A i \in 1 .. Len(fsLast'.page) : fsLast'.page[i].Path \in DOMAIN files]_vars

\* C34: at every moment at which the file created by an addDocument call is
\* visible to other callers under its cid, getDocument on that cid returns
\* the document and not the "error" sentinel.
DocumentFileAt(cid) ==
    /\ WithSlash(cid) \in DOMAIN files
    /\ "r1fs.filename" \in DOMAIN files[WithSlash(cid)].metadata
    /\ files[WithSlash(cid)].metadata["r1fs.filename"] = <<"document.yaml">>

C34_DocumentWithFile ==
    [][\A cid \in MoreCIDs :
          (FsReturns("getYAML") /\ fsLast'.cid = cid /\ fsLast'.err = "nil"
           /\ DocumentFileAt(cid))
          => fsLast'.data # "\"error\""]_vars

\* C35: a structured document is not a stored entity of its own: after any
\* sequence of file-store operations every cid in the document index refers
\* to an entry that still exists in the file store, so that getDocument(cid)
\* returns the "error" sentinel once delete(cid) has succeeded.
C35_IndexWithinFiles ==
    [][/\ \A cid \in DOMAIN yamlDocs' : WithSlash(cid) \in DOMAIN files'
       /\ \A cid \in MoreCIDs :
             (FsReturns("getYAML") /\ fsLast'.cid = cid /\ fsLast'.err = "nil"
              /\ WithSlash(cid) \notin DOMAIN files)
             => fsLast'.data = "\"error\""]_vars

\* C36: the facade's Get reports a key as absent only when the backing
\* store holds no live entry for it; a key whose stored payload is JSON null
\* is reported as present, and the facade's List includes it in its pages.
C36_AbsentOnlyIfNoEntry ==
    [][/\ \A k \in Keys :
             (Called("get") /\ last'.key = k /\ last'.err = "nil" /\ last'.item = << >>)
             => ~LiveAt(items, k, now)
       /\ \A p \in Procs :
             (Called("list") /\ pc[p] = "list_get" /\ pc'[p] = "idle")
             => \A i \in 1 .. Len(loc[p].keys) :
                   LiveAt(items, loc[p].keys[i], now)
                   => loc[p].keys[i] \in Range(PageKeys(last'.page))]_vars

\* C37: for the facade's List every key selected for a page yields an item:
\* the page holds one item per selected key, and a non-empty nextCursor is
\* the key of the last item included in the page, even if entries expire or
\* are removed between the backend's key listing and the per-key reads.
C37_ItemPerSelectedKey ==
    [][\A p \in Procs :
          (Called("list") /\ pc[p] = "list_get" /\ pc'[p] = "idle")
          => /\ PageKeys(last'.page) = loc[p].keys
             /\ last'.nextCursor # << >>
                   => /\ last'.page # << >>
                      /\ last'.nextCursor = last'.page[Len(last'.page)].Key]_vars

\* ---------------------------------------------------------------------
\* C38, as stated: Do sends at most MaxRetries + 1 requests, and a Do that
\* has returned for a well-formed request with DisableRetry set or with
\* MaxRetries 0 has sent exactly one.
NoRetryAsked(call) == call.DisableRetry \/ call.retryPolicy.MaxRetries = 0

C38_ExactlyOnceWithoutRetry ==
    \A p \in Procs :
       /\ loc[p].call.sent <= loc[p].call.retryPolicy.MaxRetries + 1
       /\ (loc[p].call.returned /\ loc[p].call.Method # "" /\ NoRetryAsked(loc[p].call))
             => loc[p].call.sent = 1

\* C38, amended: Do sends at most MaxRetries + 1 requests, at most one with
\* DisableRetry set or MaxRetries 0, and none at all only for a request it
\* rejects or under a context that is already done, whose error it then
\* returns; it returns a response of status below 400 or an error, and every
\* call under way returns.
C38_BoundedAttemptsAndReturn ==
    /\ [](\A p \in Procs :
             /\ loc[p].call.sent <= loc[p].call.retryPolicy.MaxRetries + 1
             /\ NoRetryAsked(loc[p].call) => loc[p].call.sent <= 1
             /\ (loc[p].call.returned /\ loc[p].call.sent = 0)
                   => \/ loc[p].call.Method = ""
                      \/ /\ loc[p].call.ctx # "live"
                         /\ loc[p].call.err \in {Canceled, DeadlineExceeded}
             /\ loc[p].call.returned
                   => (loc[p].call.err = "nil"
                          <=> (loc[p].call.resp >= 200 /\ loc[p].call.resp < 400)))
    /\ \A p \in Procs :
          (pc[p] \in {"do_loop", "do_sleep"}) ~> (pc[p] = "idle" /\ loc[p].call.returned)

\* A call that used up its retries: three requests sent under MaxRetries 2.
C38_Witness ==
    \E p \in Procs :
       /\ loc[p].call.returned
       /\ loc[p].call.retryPolicy.MaxRetries = 2
       /\ loc[p].call.sent = 3
       /\ loc[p].call.err # "nil"

\* ---------------------------------------------------------------------
\* C39: with RetryIf nil, an attempt answered with a status >= 400 other
\* than 408, 429 and 5xx ends the call: Do returns the HTTPError at once
\* and sends nothing more.
TransientStatus(status) ==
    status = 408 \/ status = 429 \/ (status >= 500 /\ status <= 599)

C39_PermanentStatusNotRetried ==
    [][\A p \in Procs :
          (/\ pc[p] = "do_loop"
           /\ loc'[p].call.sent = loc[p].call.sent + 1
           /\ loc[p].call.retryPolicy.RetryIf = "nil"
           /\ loc'[p].call.resp >= 400
           /\ ~TransientStatus(loc'[p].call.resp))
          => (loc'[p].call.returned /\ loc'[p].call.err = "HTTPError")]_vars

\* ---------------------------------------------------------------------
\* C40, as stated: a request is sent only under a live context; a loop turn
\* that finds the context done returns its error, and so does a backoff
\* wait that ends in a return; and once the transport has reported a
\* context error, the call sends nothing more, whatever the policy.
ContextError(err) == err = "context canceled" \/ err = "context deadline exceeded"

ErrOfContext(ctx) ==
    IF ctx = "canceled" THEN "context canceled"
    ELSE IF ctx = "deadline" THEN "context deadline exceeded"
    ELSE "nil"

Sends(p) == loc'[p].call.sent = loc[p].call.sent + 1 /\ pc[p] = "do_loop"

StopsOnceDone(p) ==
    /\ Sends(p) => loc[p].call.ctx = "live"
    /\ (pc[p] = "do_loop" /\ loc[p].call.ctx # "live" /\ loc'[p] # loc[p])
          => /\ loc'[p].call.returned
             /\ loc'[p].call.sent = loc[p].call.sent
             /\ loc'[p].call.err = ErrOfContext(loc[p].call.ctx)
    /\ (pc[p] = "do_sleep" /\ loc'[p].call.returned)
          => /\ loc[p].call.ctx # "live"
             /\ loc'[p].call.sent = loc[p].call.sent
             /\ loc'[p].call.err = ErrOfContext(loc[p].call.ctx)

C40_ContextErrorNeverRetried ==
    [][\A p \in Procs :
          /\ StopsOnceDone(p)
          /\ Sends(p) => ~loc[p].call.ctxErrSeen]_vars

\* C40, amended: the same, the last part under the default policy only:
\* with RetryIf nil an attempt for which the transport reports a context
\* error makes Do return that error at once.
C40_NoAttemptOnceDone ==
    [][\A p \in Procs :
          /\ StopsOnceDone(p)
          /\ loc[p].call.retryPolicy.RetryIf = "nil"
                => /\ Sends(p) => ~loc[p].call.ctxErrSeen
                   /\ (Sends(p) /\ loc'[p].call.ctxErrSeen)
                         => /\ loc'[p].call.returned
                            /\ ContextError(loc'[p].call.err)]_vars

\* Do has returned the context error the transport reported on the second
\* attempt, with a retry still left under the default policy.
C40_Witness ==
    \E p \in Procs :
       /\ loc[p].call.returned
       /\ loc[p].call.ctxErrSeen
       /\ loc[p].call.retryPolicy.RetryIf = "nil"
       /\ loc[p].call.sent = 2
       /\ loc[p].call.attempt = 1
       /\ loc[p].call.retryPolicy.MaxRetries = 2
       /\ loc[p].call.err = "context canceled"
       /\ loc[p].call.ctx = "canceled"
====
